---- MODULE Spec2Model ----
(***************************************************************************)
(* A model of dynamodb-autoquery: the index catalog built from a table     *)
(* description, index selection (viability and scoring), the client's      *)
(* metadata cache and the paginated Parser.                                *)
(*                                                                         *)
(* Floating point values (sparsity, scores, the sparseness threshold) are  *)
(* modelled as exact rationals [num, den] with den > 0; thresholds are     *)
(* given in tenths.  Rounding of float64 is not modelled.                  *)
(***************************************************************************)
EXTENDS Integers, Sequences, FiniteSets, Bags, TLC

VARIABLES
    tables,                             \* what the metadata provider would return now, per table name
    SecondaryIndexSparsenessThreshold,  \* Client field, in tenths
    tableIndexMetadataCache,            \* Client field: table name -> catalog, or NotCached
    providerCalls,                      \* per table name: successful metadataProvider.Get calls so far
    selExpr,                            \* the expression handed to chooseIndex
    selResult,                          \* what chooseIndex returned
    parser,                             \* the Parser's fields
    pc,                                 \* position inside Parser.Next: "idle" or "loop"
    entry,                              \* the Parser's fields when the running Next call began
    result,                             \* what the last Next call returned
    attempts,                           \* page fetches attempted by the running / last Next call
    hist,                               \* what happened to the parser so far
    store,                              \* the data set behind the query: N items, pages of P
    threads,                            \* concurrent callers of pullIndexMetadata
    lastPull                            \* observation of the last pullIndexMetadata call

vars == << tables, SecondaryIndexSparsenessThreshold, tableIndexMetadataCache,
           providerCalls, selExpr, selResult, parser, pc, entry, result,
           attempts, hist, store, threads, lastPull >>

clientVars == << SecondaryIndexSparsenessThreshold, tableIndexMetadataCache, providerCalls >>
selVars    == << selExpr, selResult >>
parserVars == << parser, pc, entry, result, attempts, hist, store >>

----------------------------------------------------------------------------
(* Bounds *)

MaxItemCount == 2   \* item counts reported by a table description: 0..MaxItemCount
MaxFilters   == 2   \* attributes carrying a filter in a drawn expression
MaxItems     == 3   \* items in the store behind a query: 0..MaxItems
MaxPageSize  == 2   \* the store's page size P and the per-page limits: 1..MaxPageSize
MaxCap       == 2   \* values given to SetMaxPagination: 0..MaxCap
MaxCalls     == 5   \* Next calls made on one parser
MaxSetterCalls == 2 \* setter calls made on one parser
MaxProviderCalls == 3 \* successful metadata fetches per table

(* Program constants *)

tablePrimaryIndexName == "#primary"
MaxFloat64 == 1000000   \* math.MaxFloat64: above every score a finite multiplier gives
DefaultSparsenessThreshold == 11   \* 1.1, in tenths

Attrs == {"director", "title", "rating"}
AllAttrs == Attrs \cup {"year"}

FilterKinds == {"equalsFilter", "lessThanFilter", "greaterThanFilter",
                "lessThanEqualFilter", "greaterThanEqualFilter",
                "betweenFilter", "beginsWithFilter"}

Thresholds == {0, 10, DefaultSparsenessThreshold}

NotCached == [cached |-> FALSE]
NoIndex == [Name |-> "nil"]
Nil == [type |-> "nil"]
NoTable == [ItemCount |-> -1]

----------------------------------------------------------------------------
(* Rationals *)

Rat(n, d) == [num |-> n, den |-> d]
RatGreater(a, b) == a.num * b.den > b.num * a.den
RatLess(a, b) == a.num * b.den < b.num * a.den
RatMul(a, b) == Rat(a.num * b.num, a.den * b.den)

----------------------------------------------------------------------------
(* Table descriptions (dynamodb.TableDescription) *)

KeyElem(name, type) == [AttributeName |-> name, KeyType |-> type]

Schema(hash, range) ==
    IF range = "" THEN << KeyElem(hash, "HASH") >>
    ELSE << KeyElem(hash, "HASH"), KeyElem(range, "RANGE") >>

Projection(type, extra) == [ProjectionType |-> type, NonKeyAttributes |-> extra]

IndexDesc(name, hash, range, proj, count) ==
    [IndexName |-> name, ItemCount |-> count, KeySchema |-> Schema(hash, range),
     Projection |-> proj]

TableDesc(count, hash, range, gsis, lsis) ==
    [ItemCount |-> count, KeySchema |-> Schema(hash, range),
     GlobalSecondaryIndexes |-> gsis, LocalSecondaryIndexes |-> lsis]

(* The shapes of table the model draws from; tc, gc, lc are item counts. *)
Movies(tc, gc) ==
    TableDesc(tc, "director", "title",
        << IndexDesc("ratingIndex", "rating", "", Projection("ALL", << >>), gc) >>, << >>)

MoviesWide(tc, gc, lc) ==
    TableDesc(tc, "director", "title",
        << IndexDesc("ratingYear", "rating", "year", Projection("KEYS_ONLY", << >>), gc) >>,
        << IndexDesc("directorRating", "director", "rating",
                     Projection("INCLUDE", << "year" >>), lc) >>)

MoviesTwoGsi(tc, gc, lc) ==
    TableDesc(tc, "director", "title",
        << IndexDesc("byRating", "director", "rating", Projection("ALL", << >>), gc),
           IndexDesc("byTitle", "director", "title", Projection("ALL", << >>), lc) >>, << >>)

Songs(tc, gc, lc) ==
    TableDesc(tc, "director", "",
        << IndexDesc("ratingDirector", "rating", "director", Projection("ALL", << >>), gc) >>,
        << IndexDesc("directorTitle", "director", "title", Projection("ALL", << >>), lc) >>)

(* a table with a single-attribute key and a keys-only index on it *)
SongsKeysOnly(tc, gc) ==
    TableDesc(tc, "director", "",
        << IndexDesc("directorRating", "director", "rating",
                     Projection("KEYS_ONLY", << >>), gc) >>, << >>)

TableDescriptions ==
    { Movies(MaxItemCount, gc) : gc \in 0..MaxItemCount }
    \cup { MoviesWide(tc, gc, 1) : tc \in 0..MaxItemCount, gc \in 0..MaxItemCount }
    \cup { MoviesTwoGsi(MaxItemCount, gc, lc) : gc \in 0..MaxItemCount,
                                                lc \in 0..MaxItemCount }
    \cup { Songs(tc, 1, 1) : tc \in 0..MaxItemCount }
    \cup { SongsKeysOnly(MaxItemCount, 1) }

----------------------------------------------------------------------------
(* tableIndex *)

EmptyIndex ==
    [Name |-> "", PartitionKey |-> "", SortKey |-> "", IsComposite |-> FALSE,
     AttributeSet |-> {}, IncludesAllAttributes |-> FALSE, Size |-> 0,
     ConsistentReadable |-> FALSE, IsSparse |-> FALSE,
     Sparsity |-> Rat(0, 1), SparsityMultiplier |-> Rat(0, 1),
     HasMaxSparsityMultiplier |-> FALSE]

RECURSIVE loadKeysLoop(_, _, _)
loadKeysLoop(index, keySchema, i) ==
    IF i > Len(keySchema) THEN index
    ELSE LET keyElement == keySchema[i]
             next == IF keyElement.KeyType = "HASH"
                        THEN [index EXCEPT !.PartitionKey = keyElement.AttributeName]
                     ELSE IF keyElement.KeyType = "RANGE"
                        THEN [index EXCEPT !.SortKey = keyElement.AttributeName,
                                           !.IsComposite = TRUE]
                     ELSE index
         IN  loadKeysLoop(next, keySchema, i + 1)

loadKeysFromSchema(index, keySchema) ==
    loadKeysLoop([index EXCEPT !.IsComposite = FALSE], keySchema, 1)

getKeys(index) ==
    IF index.IsComposite THEN << index.PartitionKey, index.SortKey >>
    ELSE << index.PartitionKey >>

SeqToSet(s) == { s[i] : i \in 1..Len(s) }

(* loadAttributesFromProjection that leaves out the primary table's keys *)
loadAttributesFromProjectionOwnKeys(index, projection, tablePrimaryIndexKeys) ==
    IF projection.ProjectionType = "ALL"
    THEN [index EXCEPT !.IncludesAllAttributes = TRUE]
    ELSE [index EXCEPT
            !.IncludesAllAttributes = FALSE,
            !.AttributeSet =
                SeqToSet(getKeys(index))
                \cup (IF projection.ProjectionType = "INCLUDE"
                      THEN SeqToSet(projection.NonKeyAttributes) ELSE {})]

loadAttributesFromProjection(index, projection, tablePrimaryIndexKeys) ==
    IF projection.ProjectionType = "ALL"
    THEN [index EXCEPT !.IncludesAllAttributes = TRUE]
    ELSE [index EXCEPT
            !.IncludesAllAttributes = FALSE,
            !.AttributeSet =
                SeqToSet(getKeys(index) \o tablePrimaryIndexKeys)
                \cup (IF projection.ProjectionType = "INCLUDE"
                      THEN SeqToSet(projection.NonKeyAttributes) ELSE {})]

(* The sparsity fields follow the spec's data model: Sparsity is index     *)
(* size over table size (0 for an empty table), SparsityMultiplier its     *)
(* inverse, the maximal value with its flag when the sparsity is zero; an  *)
(* index is sparse iff composite, its sort key is not a primary key        *)
(* attribute, and its sparsity is below the threshold (in tenths).         *)
inferSparseness(index, tablePrimaryIndex, threshold) ==
    LET tableSize == tablePrimaryIndex.Size
        sparsity == IF tableSize = 0 THEN Rat(0, 1) ELSE Rat(index.Size, tableSize)
        isMax == sparsity.num = 0
    IN  [index EXCEPT
            !.Sparsity = sparsity,
            !.SparsityMultiplier =
                IF isMax THEN Rat(MaxFloat64, 1) ELSE Rat(sparsity.den, sparsity.num),
            !.HasMaxSparsityMultiplier = isMax,
            !.IsSparse =
                IF ~index.IsComposite THEN FALSE
                ELSE IF index.SortKey = tablePrimaryIndex.PartitionKey
                        \/ (tablePrimaryIndex.IsComposite
                            /\ index.SortKey = tablePrimaryIndex.SortKey) THEN FALSE
                ELSE RatLess(sparsity, Rat(threshold, 10))]

(* secondaryIndex that infers sparseness from the two sizes alone *)
secondaryIndexBySizeOnly(desc, consistentReadable, tablePrimaryIndex, threshold) ==
    LET index0 == [EmptyIndex EXCEPT !.Name = desc.IndexName, !.Size = desc.ItemCount,
                                     !.ConsistentReadable = consistentReadable]
        index1 == loadKeysFromSchema(index0, desc.KeySchema)
        index2 == loadAttributesFromProjection(index1, desc.Projection,
                                               getKeys(tablePrimaryIndex))
        index3 == inferSparseness(index2, tablePrimaryIndex, threshold)
        sparsenessRatio == IF tablePrimaryIndex.Size = 0 THEN Rat(0, 1)
                           ELSE Rat(index2.Size, tablePrimaryIndex.Size)
    IN  [index3 EXCEPT !.IsSparse = index2.IsComposite
                                    /\ RatLess(sparsenessRatio, Rat(threshold, 10))]

(* secondaryIndex that marks every index consistent-readable *)
secondaryIndexAlwaysConsistent(desc, consistentReadable, tablePrimaryIndex, threshold) ==
    LET index0 == [EmptyIndex EXCEPT !.Name = desc.IndexName, !.Size = desc.ItemCount,
                                     !.ConsistentReadable = TRUE]
        index1 == loadKeysFromSchema(index0, desc.KeySchema)
        index2 == loadAttributesFromProjection(index1, desc.Projection,
                                               getKeys(tablePrimaryIndex))
    IN  inferSparseness(index2, tablePrimaryIndex, threshold)

secondaryIndex(desc, consistentReadable, tablePrimaryIndex, threshold) ==
    LET index0 == [EmptyIndex EXCEPT !.Name = desc.IndexName, !.Size = desc.ItemCount,
                                     !.ConsistentReadable = consistentReadable]
        index1 == loadKeysFromSchema(index0, desc.KeySchema)
        index2 == loadAttributesFromProjection(index1, desc.Projection,
                                               getKeys(tablePrimaryIndex))
    IN  inferSparseness(index2, tablePrimaryIndex, threshold)

(* parseTableIndexMetadata whose primary index is built like a global     *)
(* secondary index: not consistent-readable                                *)
parseTableIndexMetadataPrimaryAsGsi(table, threshold) ==
    LET tablePrimaryIndex ==
            loadKeysFromSchema(
                [EmptyIndex EXCEPT !.Name = tablePrimaryIndexName,
                                   !.Size = table.ItemCount,
                                   !.IncludesAllAttributes = TRUE,
                                   !.ConsistentReadable = FALSE,
                                   !.IsSparse = FALSE,
                                   !.Sparsity = Rat(1, 1),
                                   !.SparsityMultiplier = Rat(1, 1)],
                table.KeySchema)
        gsis == [i \in 1..Len(table.GlobalSecondaryIndexes) |->
                    secondaryIndex(table.GlobalSecondaryIndexes[i], FALSE,
                                   tablePrimaryIndex, threshold)]
        lsis == [i \in 1..Len(table.LocalSecondaryIndexes) |->
                    secondaryIndex(table.LocalSecondaryIndexes[i], TRUE,
                                   tablePrimaryIndex, threshold)]
    IN  [Indexes |-> << tablePrimaryIndex >> \o gsis \o lsis]

parseTableIndexMetadata(table, threshold) ==
    LET tablePrimaryIndex ==
            loadKeysFromSchema(
                [EmptyIndex EXCEPT !.Name = tablePrimaryIndexName,
                                   !.Size = table.ItemCount,
                                   !.IncludesAllAttributes = TRUE,
                                   !.ConsistentReadable = TRUE,
                                   !.IsSparse = FALSE,
                                   !.Sparsity = Rat(1, 1),
                                   !.SparsityMultiplier = Rat(1, 1)],
                table.KeySchema)
        gsis == [i \in 1..Len(table.GlobalSecondaryIndexes) |->
                    secondaryIndex(table.GlobalSecondaryIndexes[i], FALSE,
                                   tablePrimaryIndex, threshold)]
        lsis == [i \in 1..Len(table.LocalSecondaryIndexes) |->
                    secondaryIndex(table.LocalSecondaryIndexes[i], TRUE,
                                   tablePrimaryIndex, threshold)]
    IN  [Indexes |-> << tablePrimaryIndex >> \o gsis \o lsis]

----------------------------------------------------------------------------
(* Expression *)

Filter(kind) == [kind |-> kind, value |-> 1]

NewExpr(filters, attributesSpecified, attributes, orderSpecified, orderAttribute, orderAscending, consistentRead, additionalConditions) ==
    [filters |-> filters, attributesSpecified |-> attributesSpecified,
     attributes |-> attributes, orderSpecified |-> orderSpecified,
     orderAttribute |-> orderAttribute, orderAscending |-> orderAscending,
     consistentRead |-> consistentRead, additionalConditions |-> additionalConditions]

(* reflect.TypeOf(expr.filters[attr]): the filter's type, or nil when the  *)
(* map has no entry for attr.                                              *)
(* filterType that looks only at whether attr carries a condition *)
filterTypePresenceOnly(expr, attr) ==
    IF attr \in DOMAIN expr.filters THEN "equalsFilter" ELSE "nil"

filterType(expr, attr) ==
    IF attr \in DOMAIN expr.filters THEN expr.filters[attr].kind ELSE "nil"

typesMatch(a, b) == a = b

(* Filter maps with at most MaxFilters filtered attributes, at most one of  *)
(* them carrying a condition other than Equal.                             *)
FilterMaps ==
    { f \in UNION { [D -> { Filter(k) : k \in FilterKinds }] :
                    D \in { S \in SUBSET Attrs : Cardinality(S) <= MaxFilters } } :
        Cardinality({ a \in DOMAIN f : f[a].kind # "equalsFilter" }) <= 1 }

SelectChoices ==
    { << FALSE, << >> >>, << TRUE, << >> >>, << TRUE, << "title" >> >>,
      << TRUE, << "rating", "year" >> >> }

OrderChoices ==
    { << FALSE, "" >>, << TRUE, "title" >>, << TRUE, "rating" >> }

Expressions ==
    { NewExpr(f, s[1], s[2], o[1], o[2], TRUE, c, << >>) :
        f \in FilterMaps, s \in SelectChoices, o \in OrderChoices, c \in BOOLEAN }

----------------------------------------------------------------------------
(* Index selection *)

(* a reason string: the fixed text and the attribute names formatted into it *)
(* Reason that leaves the attribute names out *)
ReasonNoArgs(text, args) == << text, << >> >>

Reason(text, args) == << text, args >>

(* missingAttrs that lists every selected attribute once one is missing *)
missingAttrsWhole(index, attributes, i) ==
    IF \A k \in i..Len(attributes) : attributes[k] \in index.AttributeSet THEN << >>
    ELSE [k \in 1..(Len(attributes) - i + 1) |-> attributes[k + i - 1]]

RECURSIVE missingAttrs(_, _, _)
missingAttrs(index, attributes, i) ==
    IF i > Len(attributes) THEN << >>
    ELSE (IF attributes[i] \in index.AttributeSet THEN << >> ELSE << attributes[i] >>)
         \o missingAttrs(index, attributes, i + 1)

(* listIndexViabilityInfractions where selecting a sparse index's sort key *)
(* counts as referencing it                                               *)
listIndexViabilityInfractionsSelectCounts(index, expr) ==
    LET r1 == IF ~typesMatch(filterType(expr, index.PartitionKey), "equalsFilter")
              THEN << Reason("expression does not contain an equals condition on attribute",
                             << index.PartitionKey >>) >>
              ELSE << >>
        r2 == IF expr.consistentRead /\ ~index.ConsistentReadable
              THEN << Reason("global secondary index does not support consistent read", << >>) >>
              ELSE << >>
        r3 == IF expr.orderSpecified /\ expr.orderAttribute # index.SortKey
              THEN << Reason("expression specifies order, so it requires an index with sort key",
                             << expr.orderAttribute >>) >>
              ELSE << >>
        indexMissingAttrs == missingAttrs(index, expr.attributes, 1)
        r4 == IF ~index.IncludesAllAttributes
              THEN IF expr.attributesSpecified
                   THEN IF Len(indexMissingAttrs) > 0
                        THEN << Reason("index does not include attributes",
                                       indexMissingAttrs) >>
                        ELSE << >>
                   ELSE << Reason("expression does not select attributes, so it requires an index that projects all", << >>) >>
              ELSE << >>
        sortKeyInFilters == index.SortKey \in DOMAIN expr.filters
                            \/ index.SortKey \in SeqToSet(expr.attributes)
        r5 == IF index.IsSparse /\ ~sortKeyInFilters /\ expr.orderAttribute # index.SortKey
              THEN << Reason("expression does not filter on sparse secondary index's sort key",
                             << index.SortKey >>) >>
              ELSE << >>
    IN  r1 \o r2 \o r3 \o r4 \o r5

listIndexViabilityInfractions(index, expr) ==
    LET r1 == IF ~typesMatch(filterType(expr, index.PartitionKey), "equalsFilter")
              THEN << Reason("expression does not contain an equals condition on attribute",
                             << index.PartitionKey >>) >>
              ELSE << >>
        r2 == IF expr.consistentRead /\ ~index.ConsistentReadable
              THEN << Reason("global secondary index does not support consistent read", << >>) >>
              ELSE << >>
        r3 == IF expr.orderSpecified /\ expr.orderAttribute # index.SortKey
              THEN << Reason("expression specifies order, so it requires an index with sort key",
                             << expr.orderAttribute >>) >>
              ELSE << >>
        indexMissingAttrs == missingAttrs(index, expr.attributes, 1)
        r4 == IF ~index.IncludesAllAttributes
              THEN IF expr.attributesSpecified
                   THEN IF Len(indexMissingAttrs) > 0
                        THEN << Reason("index does not include attributes",
                                       indexMissingAttrs) >>
                        ELSE << >>
                   ELSE << Reason("expression does not select attributes, so it requires an index that projects all", << >>) >>
              ELSE << >>
        sortKeyInFilters == index.SortKey \in DOMAIN expr.filters
        r5 == IF index.IsSparse /\ ~sortKeyInFilters /\ expr.orderAttribute # index.SortKey
              THEN << Reason("expression does not filter on sparse secondary index's sort key",
                             << index.SortKey >>) >>
              ELSE << >>
    IN  r1 \o r2 \o r3 \o r4 \o r5

(* sortKeyFilterTypeScoreMap, in tenths, with defaultFilterTypeScore *)
sortKeyFilterTypeScore(type) ==
    CASE type = "equalsFilter"     -> Rat(25, 10)
      [] type = "betweenFilter"    -> Rat(18, 10)
      [] type = "beginsWithFilter" -> Rat(15, 10)
      [] type = "nil"              -> Rat(2, 10)
      [] OTHER                     -> Rat(10, 10)

ErrIndexNotViable(index, reasons) ==
    [IndexName |-> index.Name, NotViableReasons |-> reasons]

(* scoreIndexOnExpr without the test of HasMaxSparsityMultiplier *)
scoreIndexOnExprNoMaxFlag(index, expr) ==
    LET indexNotViableReasons == listIndexViabilityInfractions(index, expr)
        exprSortKeyFilter == IF index.IsComposite THEN filterType(expr, index.SortKey)
                             ELSE "nil"
    IN  IF Len(indexNotViableReasons) > 0
        THEN [score |-> Rat(0, 1),
              inviableErr |-> ErrIndexNotViable(index, indexNotViableReasons)]
        ELSE [score |-> RatMul(index.SparsityMultiplier,
                               sortKeyFilterTypeScore(exprSortKeyFilter)),
              inviableErr |-> Nil]

(* returns [score, inviableErr]; inviableErr is Nil for a viable index *)
scoreIndexOnExpr(index, expr) ==
    LET indexNotViableReasons == listIndexViabilityInfractions(index, expr)
        exprSortKeyFilter == IF index.IsComposite THEN filterType(expr, index.SortKey)
                             ELSE "nil"
    IN  IF Len(indexNotViableReasons) > 0
        THEN [score |-> Rat(0, 1),
              inviableErr |-> ErrIndexNotViable(index, indexNotViableReasons)]
        ELSE IF index.HasMaxSparsityMultiplier
        THEN [score |-> Rat(MaxFloat64, 1), inviableErr |-> Nil]
        ELSE [score |-> RatMul(index.SparsityMultiplier,
                               sortKeyFilterTypeScore(exprSortKeyFilter)),
              inviableErr |-> Nil]

(* chooseLoop that keeps the first viable index, whatever the later scores *)
RECURSIVE chooseLoopFirstViable(_, _, _, _, _, _)
chooseLoopFirstViable(indexes, expr, i, bestIndex, bestIndexScore, inviableErrs) ==
    IF i > Len(indexes)
    THEN [bestIndex |-> bestIndex, inviableErrs |-> inviableErrs]
    ELSE LET s == scoreIndexOnExpr(indexes[i], expr)
         IN  IF s.inviableErr # Nil
             THEN chooseLoopFirstViable(indexes, expr, i + 1, bestIndex, bestIndexScore,
                                        Append(inviableErrs, s.inviableErr))
             ELSE IF bestIndex = NoIndex
             THEN chooseLoopFirstViable(indexes, expr, i + 1, indexes[i], s.score,
                                        inviableErrs)
             ELSE chooseLoopFirstViable(indexes, expr, i + 1, bestIndex, bestIndexScore,
                                        inviableErrs)

(* chooseLoop with >= for >: on equal scores the later index wins *)
RECURSIVE chooseLoopLastOnTie(_, _, _, _, _, _)
chooseLoopLastOnTie(indexes, expr, i, bestIndex, bestIndexScore, inviableErrs) ==
    IF i > Len(indexes)
    THEN [bestIndex |-> bestIndex, inviableErrs |-> inviableErrs]
    ELSE LET s == scoreIndexOnExpr(indexes[i], expr)
         IN  IF s.inviableErr # Nil
             THEN chooseLoopLastOnTie(indexes, expr, i + 1, bestIndex, bestIndexScore,
                                      Append(inviableErrs, s.inviableErr))
             ELSE IF ~RatLess(s.score, bestIndexScore)
             THEN chooseLoopLastOnTie(indexes, expr, i + 1, indexes[i], s.score,
                                      inviableErrs)
             ELSE chooseLoopLastOnTie(indexes, expr, i + 1, bestIndex, bestIndexScore,
                                      inviableErrs)

RECURSIVE chooseLoop(_, _, _, _, _, _)
chooseLoop(indexes, expr, i, bestIndex, bestIndexScore, inviableErrs) ==
    IF i > Len(indexes)
    THEN [bestIndex |-> bestIndex, inviableErrs |-> inviableErrs]
    ELSE LET s == scoreIndexOnExpr(indexes[i], expr)
         IN  IF s.inviableErr # Nil
             THEN chooseLoop(indexes, expr, i + 1, bestIndex, bestIndexScore,
                             Append(inviableErrs, s.inviableErr))
             ELSE IF RatGreater(s.score, bestIndexScore)
             THEN chooseLoop(indexes, expr, i + 1, indexes[i], s.score, inviableErrs)
             ELSE chooseLoop(indexes, expr, i + 1, bestIndex, bestIndexScore, inviableErrs)

(* chooseIndexIn that fails as soon as some index is not viable *)
chooseIndexInAnyInviable(indexMetadata, expr) ==
    LET r == chooseLoop(indexMetadata.Indexes, expr, 1, NoIndex, Rat(0, 1), << >>)
    IN  IF r.bestIndex = NoIndex \/ Len(r.inviableErrs) > 0
        THEN [index |-> NoIndex,
              err |-> [type |-> "ErrNoViableIndexes", IndexErrs |-> r.inviableErrs]]
        ELSE [index |-> r.bestIndex, err |-> Nil]

(* Client.chooseIndex once the metadata has been pulled *)
chooseIndexIn(indexMetadata, expr) ==
    LET r == chooseLoop(indexMetadata.Indexes, expr, 1, NoIndex, Rat(0, 1), << >>)
    IN  IF r.bestIndex = NoIndex
        THEN [index |-> NoIndex,
              err |-> [type |-> "ErrNoViableIndexes", IndexErrs |-> r.inviableErrs]]
        ELSE [index |-> r.bestIndex, err |-> Nil]

----------------------------------------------------------------------------
(* Client: metadata provider and cache *)

TableNames == {"Movies", "Songs"}

GetOk(table) == [err |-> Nil, table |-> table]
GetFailed == [err |-> [type |-> "metadata provider error"], table |-> NoTable]

(* what metadataProvider.Get(ctx, tableName) may return: the table's       *)
(* description, or an error (not found, transport, cancelled context)      *)
GetOutcomes(tableName) == { GetOk(tables[tableName]), GetFailed }

(* pullIndexMetadata that never finds the table in the cache *)
pullIndexMetadataNoCache(cache, threshold, tableName, get) ==
    IF get.err # Nil
    THEN [indexMetadata |-> NotCached, err |-> get.err, cache |-> cache, fetched |-> TRUE]
    ELSE LET indexMetadata == parseTableIndexMetadata(get.table, threshold)
         IN  [indexMetadata |-> indexMetadata, err |-> Nil,
              cache |-> [cache EXCEPT ![tableName] = indexMetadata],
              fetched |-> TRUE]

(* Client.pullIndexMetadata; get is what the provider returns if called.   *)
(* fetched tells whether the provider was called.                          *)
pullIndexMetadata(cache, threshold, tableName, get) ==
    LET found == cache[tableName] # NotCached
    IN  IF found
        THEN [indexMetadata |-> cache[tableName], err |-> Nil, cache |-> cache,
              fetched |-> FALSE]
        ELSE IF get.err # Nil
        THEN [indexMetadata |-> NotCached, err |-> get.err, cache |-> cache, fetched |-> TRUE]
        ELSE LET indexMetadata == parseTableIndexMetadata(get.table, threshold)
             IN  [indexMetadata |-> indexMetadata, err |-> Nil,
                  cache |-> [cache EXCEPT ![tableName] = indexMetadata],
                  fetched |-> TRUE]

(* Client.chooseIndex *)
chooseIndex(cache, threshold, tableName, expr, get) ==
    LET pulled == pullIndexMetadata(cache, threshold, tableName, get)
    IN  IF pulled.err # Nil
        THEN [index |-> NoIndex, err |-> pulled.err, pulled |-> pulled]
        ELSE LET chosen == chooseIndexIn(pulled.indexMetadata, expr)
             IN  [index |-> chosen.index, err |-> chosen.err, pulled |-> pulled]

countOk(pulled) == IF pulled.fetched /\ pulled.err = Nil THEN 1 ELSE 0

----------------------------------------------------------------------------
(* Request compilation *)

Clause(attr, filter) == [attr |-> attr, kind |-> filter.kind, value |-> filter.value]

Aborted == [aborted |-> TRUE]

(* constructQueryInputGivenIndex without the delete of the partition key's *)
(* filter from the local map                                               *)
constructQueryInputGivenIndexKeepsPk(expr, index) ==
    LET filters0 == expr.filters
        afterPk == filters0
        hasSortKeyFilter == index.IsComposite /\ index.SortKey \in DOMAIN afterPk
        kce == << Clause(index.PartitionKey, filters0[index.PartitionKey]) >>
               \o (IF hasSortKeyFilter
                   THEN << Clause(index.SortKey, afterPk[index.SortKey]) >> ELSE << >>)
        filters == IF hasSortKeyFilter
                   THEN [a \in (DOMAIN afterPk) \ {index.SortKey} |-> afterPk[a]]
                   ELSE afterPk
    IN  IF filterType(expr, index.PartitionKey) # "equalsFilter" THEN Aborted
        ELSE IF expr.attributesSpecified /\ Len(expr.attributes) = 0 THEN Aborted
        ELSE [aborted |-> FALSE,
              KeyConditionExpression |-> kce,
              FilterExpression |->
                  [clauses |-> SetToBag({ Clause(a, filters[a]) : a \in DOMAIN filters }),
                   additional |-> expr.additionalConditions],
              ProjectionExpression |->
                  IF expr.attributesSpecified THEN expr.attributes ELSE << >>,
              HasProjection |-> expr.attributesSpecified,
              IndexName |-> IF index.Name # tablePrimaryIndexName
                            THEN << index.Name >> ELSE << >>,
              ConsistentRead |-> IF expr.consistentRead THEN << TRUE >> ELSE << >>,
              ScanIndexForward |-> IF expr.orderSpecified
                                   THEN << expr.orderAscending >> ELSE << >>,
              TableName |-> << >>,
              Limit |-> << >>,
              ExclusiveStartKey |-> 0]

(* constructQueryInputGivenIndex that names the index whichever it is *)
constructQueryInputGivenIndexAlwaysNamed(expr, index) ==
    LET filters0 == expr.filters
        afterPk == [a \in (DOMAIN filters0) \ {index.PartitionKey} |-> filters0[a]]
        hasSortKeyFilter == index.IsComposite /\ index.SortKey \in DOMAIN afterPk
        kce == << Clause(index.PartitionKey, filters0[index.PartitionKey]) >>
               \o (IF hasSortKeyFilter
                   THEN << Clause(index.SortKey, afterPk[index.SortKey]) >> ELSE << >>)
        filters == IF hasSortKeyFilter
                   THEN [a \in (DOMAIN afterPk) \ {index.SortKey} |-> afterPk[a]]
                   ELSE afterPk
    IN  IF filterType(expr, index.PartitionKey) # "equalsFilter" THEN Aborted
        ELSE IF expr.attributesSpecified /\ Len(expr.attributes) = 0 THEN Aborted
        ELSE [aborted |-> FALSE,
              KeyConditionExpression |-> kce,
              FilterExpression |->
                  [clauses |-> SetToBag({ Clause(a, filters[a]) : a \in DOMAIN filters }),
                   additional |-> expr.additionalConditions],
              ProjectionExpression |->
                  IF expr.attributesSpecified THEN expr.attributes ELSE << >>,
              HasProjection |-> expr.attributesSpecified,
              IndexName |-> << index.Name >>,
              ConsistentRead |-> IF expr.consistentRead THEN << TRUE >> ELSE << >>,
              ScanIndexForward |-> IF expr.orderSpecified
                                   THEN << expr.orderAscending >> ELSE << >>,
              TableName |-> << >>,
              Limit |-> << >>,
              ExclusiveStartKey |-> 0]

(* Expression.constructQueryInputGivenIndex.  The filter conjunction is    *)
(* built by ranging over a map, so its clauses are kept as a bag.  The     *)
(* result is Aborted where the code panics: the type assertion on the      *)
(* partition key's filter, and names[0] of an empty Select list.           *)
constructQueryInputGivenIndex(expr, index) ==
    LET filters0 == expr.filters
        afterPk == [a \in (DOMAIN filters0) \ {index.PartitionKey} |-> filters0[a]]
        hasSortKeyFilter == index.IsComposite /\ index.SortKey \in DOMAIN afterPk
        kce == << Clause(index.PartitionKey, filters0[index.PartitionKey]) >>
               \o (IF hasSortKeyFilter
                   THEN << Clause(index.SortKey, afterPk[index.SortKey]) >> ELSE << >>)
        filters == IF hasSortKeyFilter
                   THEN [a \in (DOMAIN afterPk) \ {index.SortKey} |-> afterPk[a]]
                   ELSE afterPk
    IN  IF filterType(expr, index.PartitionKey) # "equalsFilter" THEN Aborted
        ELSE IF expr.attributesSpecified /\ Len(expr.attributes) = 0 THEN Aborted
        ELSE [aborted |-> FALSE,
              KeyConditionExpression |-> kce,
              FilterExpression |->
                  [clauses |-> SetToBag({ Clause(a, filters[a]) : a \in DOMAIN filters }),
                   additional |-> expr.additionalConditions],
              ProjectionExpression |->
                  IF expr.attributesSpecified THEN expr.attributes ELSE << >>,
              HasProjection |-> expr.attributesSpecified,
              IndexName |-> IF index.Name # tablePrimaryIndexName
                            THEN << index.Name >> ELSE << >>,
              ConsistentRead |-> IF expr.consistentRead THEN << TRUE >> ELSE << >>,
              ScanIndexForward |-> IF expr.orderSpecified
                                   THEN << expr.orderAscending >> ELSE << >>,
              TableName |-> << >>,
              Limit |-> << >>,
              ExclusiveStartKey |-> 0]

----------------------------------------------------------------------------
(* Parser *)

(* A continuation key is the position of the last item evaluated; 0 is the *)
(* nil / empty key.  Pointer fields of the request are sequences of length *)
(* 0 (nil) or 1.                                                           *)

NoQueryInput == [aborted |-> FALSE, nil |-> TRUE]

(* Client.NewQuery *)
NewQuery(tableName, expr) ==
    [tableName |-> tableName, expr |-> expr,
     maxPagesSpecified |-> FALSE, maxPages |-> 0, currentPage |-> 0,
     limitPerPageSpecified |-> FALSE, limitPerPage |-> 0,
     exclusiveStartkey |-> 0,
     queryInput |-> NoQueryInput,
     bufferedItems |-> << >>, currentBufferIndex |-> 0]

lastEvaluatedKeyIsEmpty(p) == p.exclusiveStartkey = 0

(* allItemsParsed without the test that a page has been fetched *)
allItemsParsedAnyPage(p) == lastEvaluatedKeyIsEmpty(p)

allItemsParsed(p) == p.currentPage > 0 /\ lastEvaluatedKeyIsEmpty(p)

(* maxPaginationReached with > for >= *)
maxPaginationReachedLate(p) == p.maxPagesSpecified /\ p.currentPage > p.maxPages

maxPaginationReached(p) == p.maxPagesSpecified /\ p.currentPage >= p.maxPages

(* Parser.buildQueryInput once chooseIndex has returned chosen; returns the *)
(* parser, the error and the cache.  On an abort inside                    *)
(* constructQueryInputGivenIndex the error is Aborted.                     *)
buildQueryInputWith(p, cache, chosen) ==
    LET compiled == constructQueryInputGivenIndex(p.expr, chosen.index)
        queryInput == IF p.queryInput = NoQueryInput THEN compiled ELSE p.queryInput
        stamped == [queryInput EXCEPT
                      !.TableName = << p.tableName >>,
                      !.Limit = IF p.limitPerPageSpecified
                                THEN << p.limitPerPage >> ELSE << >>,
                      !.ExclusiveStartKey = p.exclusiveStartkey]
    IN  IF p.queryInput = NoQueryInput /\ chosen.err # Nil
        THEN [parser |-> p, err |-> chosen.err, cache |-> chosen.pulled.cache,
              ok |-> countOk(chosen.pulled)]
        ELSE IF p.queryInput = NoQueryInput /\ compiled.aborted
        THEN [parser |-> p, err |-> Aborted, cache |-> chosen.pulled.cache,
              ok |-> countOk(chosen.pulled)]
        ELSE [parser |-> [p EXCEPT !.queryInput = stamped], err |-> Nil,
              cache |-> IF p.queryInput = NoQueryInput THEN chosen.pulled.cache ELSE cache,
              ok |-> IF p.queryInput = NoQueryInput THEN countOk(chosen.pulled) ELSE 0]

(* Parser.buildQueryInput *)
buildQueryInput(p, cache, threshold, get) ==
    buildQueryInputWith(p, cache, chooseIndex(cache, threshold, p.tableName, p.expr, get))

Min(a, b) == IF a < b THEN a ELSE b

QueryFailed == [err |-> [type |-> "query error"], Items |-> << >>, LastEvaluatedKey |-> 0]

(* dynamodbService.QueryWithContext against the store: the page after the  *)
(* start key, of at most Limit and at most P items.  A page that ends      *)
(* exactly at the last item may or may not carry a continuation key.       *)
QueryWithContext(queryInput) ==
    LET size == IF queryInput.Limit = << >> THEN store.P
                ELSE Min(queryInput.Limit[1], store.P)
        k == queryInput.ExclusiveStartKey
        last == Min(k + size, store.N)
        items == [i \in 1..(last - k) |-> k + i]
        keys == IF k + size < store.N THEN {k + size}
                ELSE IF k + size = store.N THEN {0, store.N}
                ELSE {0}
    IN  { [err |-> Nil, Items |-> items, LastEvaluatedKey |-> key] : key \in keys }
        \cup { QueryFailed }

(* dynamodbService.QueryWithContext against a store that filters: it      *)
(* evaluates its items page by page and returns those that match, so that *)
(* a page may be empty and still carry a continuation key; an endless      *)
(* store has no last page and no matching item.                            *)
QueryFiltered(queryInput) ==
    LET size == IF queryInput.Limit = << >> THEN store.P
                ELSE Min(queryInput.Limit[1], store.P)
        k == queryInput.ExclusiveStartKey
        last == Min(k + size, store.N)
        Matches(i) == i \in store.match
        items == SelectSeq([i \in 1..(last - k) |-> k + i], Matches)
        keys == IF k + size < store.N THEN {k + size}
                ELSE IF k + size = store.N THEN {0, store.N}
                ELSE {0}
    IN  IF store.endless
        THEN { [err |-> Nil, Items |-> << >>, LastEvaluatedKey |-> 1], QueryFailed }
        ELSE { [err |-> Nil, Items |-> items, LastEvaluatedKey |-> key] : key \in keys }
             \cup { QueryFailed }

(* parser.client.dynamodbService: the plain store or the filtering one *)
dynamodbService(queryInput) ==
    IF "match" \in DOMAIN store THEN QueryFiltered(queryInput)
    ELSE QueryWithContext(queryInput)

(* afterQuery that counts only the pages holding items *)
afterQueryCountsItems(p, queryOutput) ==
    IF queryOutput.err # Nil THEN p
    ELSE [p EXCEPT !.exclusiveStartkey = queryOutput.LastEvaluatedKey,
                   !.currentPage = IF Len(queryOutput.Items) > 0 THEN @ + 1 ELSE @,
                   !.bufferedItems = queryOutput.Items,
                   !.currentBufferIndex = 0]

(* afterQuery that takes the continuation key of a failed fetch *)
afterQueryTakesKeyOnError(p, queryOutput) ==
    IF queryOutput.err # Nil
    THEN [p EXCEPT !.exclusiveStartkey = queryOutput.LastEvaluatedKey]
    ELSE [p EXCEPT !.exclusiveStartkey = queryOutput.LastEvaluatedKey,
                   !.currentPage = @ + 1,
                   !.bufferedItems = queryOutput.Items,
                   !.currentBufferIndex = 0]

(* afterQuery with the page counted before the error check *)
afterQueryCountsFailed(p, queryOutput) ==
    IF queryOutput.err # Nil THEN [p EXCEPT !.currentPage = @ + 1]
    ELSE [p EXCEPT !.exclusiveStartkey = queryOutput.LastEvaluatedKey,
                   !.currentPage = @ + 1,
                   !.bufferedItems = queryOutput.Items,
                   !.currentBufferIndex = 0]

(* Parser.Next after QueryWithContext returned: on an error nothing is     *)
(* touched, otherwise the parser takes the page.                           *)
afterQuery(p, queryOutput) ==
    IF queryOutput.err # Nil THEN p
    ELSE [p EXCEPT !.exclusiveStartkey = queryOutput.LastEvaluatedKey,
                   !.currentPage = @ + 1,
                   !.bufferedItems = queryOutput.Items,
                   !.currentBufferIndex = 0]

(* Parser.SetMaxPagination and the other setters *)
SetMaxPagination(p, maxPages) ==
    [p EXCEPT !.maxPagesSpecified = TRUE, !.maxPages = maxPages]

UnsetMaxPagination(p) == [p EXCEPT !.maxPagesSpecified = FALSE]

SetLimitPerPage(p, limit) ==
    [p EXCEPT !.limitPerPageSpecified = TRUE, !.limitPerPage = limit]

(* UnsetLimitPerPage clearing the other setter's flag *)
UnsetLimitPerPageWrongFlag(p) == [p EXCEPT !.maxPagesSpecified = FALSE]

UnsetLimitPerPage(p) == [p EXCEPT !.limitPerPageSpecified = FALSE]

(* SetExclusiveStartKey that also drops the buffered page *)
SetExclusiveStartKeyDropsBuffer(p, exclusiveStartKey) ==
    [p EXCEPT !.exclusiveStartkey = exclusiveStartKey,
              !.bufferedItems = << >>, !.currentBufferIndex = 0]

SetExclusiveStartKey(p, exclusiveStartKey) ==
    [p EXCEPT !.exclusiveStartkey = exclusiveStartKey]

----------------------------------------------------------------------------
(* Idle values of the variables a specification does not use *)

NoResult == [kind |-> "none"]
NoExpr == NewExpr(<< >>, FALSE, << >>, FALSE, "", FALSE, FALSE, << >>)
NoParser == [tableName |-> "nil"]
NoStore == [N |-> 0, P |-> 1]
NoHist == [calls |-> -1]
NoThreads == << >>
NoPull == [kind |-> "none"]

----------------------------------------------------------------------------
(* Index selection as a function of the table description, the threshold   *)
(* and the expression: SpecSelect.  The client has already queried the     *)
(* table once, so its catalog is in the cache.                             *)

SelectTable == "Movies"

InitSelect ==
    /\ \E d \in TableDescriptions : tables = [t \in TableNames |-> d]
    /\ SecondaryIndexSparsenessThreshold \in Thresholds
    /\ tableIndexMetadataCache =
          [t \in TableNames |->
              IF t = SelectTable
              THEN parseTableIndexMetadata(tables[t], SecondaryIndexSparsenessThreshold)
              ELSE NotCached]
    /\ providerCalls = [t \in TableNames |-> IF t = SelectTable THEN 1 ELSE 0]
    /\ selExpr \in Expressions
    /\ selResult = NoResult
    /\ parser = NoParser /\ pc = "idle" /\ entry = NoParser /\ result = NoResult
    /\ attempts = 0 /\ hist = NoHist /\ store = NoStore
    /\ threads = NoThreads /\ lastPull = NoPull

ChooseIndexCall ==
    /\ selResult = NoResult
    /\ \E get \in GetOutcomes(SelectTable) :
         LET r == chooseIndex(tableIndexMetadataCache, SecondaryIndexSparsenessThreshold,
                              SelectTable, selExpr, get)
         IN  /\ selResult' = [kind |-> "chosen", index |-> r.index, err |-> r.err]
             /\ tableIndexMetadataCache' = r.pulled.cache
             /\ providerCalls' = [providerCalls EXCEPT
                                    ![SelectTable] = @ + countOk(r.pulled)]
    /\ UNCHANGED << tables, SecondaryIndexSparsenessThreshold, selExpr,
                    parserVars, threads, lastPull >>

NextSelect == ChooseIndexCall

SpecSelect == InitSelect /\ [][NextSelect]_vars

----------------------------------------------------------------------------
(* The Parser driven by its caller: Spec                                    *)

ParserTable == "Movies"

(* Equal(director) AND BeginsWith(title): the primary index is chosen;     *)
(* Equal(title) alone: no index of Movies is viable.                       *)
ParserExpressions ==
    { NewExpr([a \in {"director", "title"} |->
                  IF a = "director" THEN Filter("equalsFilter")
                  ELSE Filter("beginsWithFilter")],
              FALSE, << >>, FALSE, "", FALSE, FALSE, << >>),
      NewExpr([a \in {"title"} |-> Filter("equalsFilter")],
              FALSE, << >>, FALSE, "", FALSE, FALSE, << >>) }

NotCalled == [done |-> FALSE]

Init ==
    /\ tables = [t \in TableNames |-> Movies(MaxItemCount, 1)]
    /\ SecondaryIndexSparsenessThreshold = DefaultSparsenessThreshold
    /\ tableIndexMetadataCache = [t \in TableNames |-> NotCached]
    /\ providerCalls = [t \in TableNames |-> 0]
    /\ selExpr = NoExpr /\ selResult = NoResult
    /\ \E e \in ParserExpressions : parser = NewQuery(ParserTable, e)
    /\ pc = "idle" /\ entry = NoParser /\ result = NoResult /\ attempts = 0
    /\ hist = [calls |-> 0, setterCalls |-> 0, returned |-> << >>, failed |-> FALSE,
               capSet |-> FALSE, capLate |-> FALSE, keySet |-> FALSE,
               completes |-> 0, completeSince |-> FALSE, first |-> NotCalled,
               lost |-> << >>, fetchFailed |-> FALSE]
    /\ store \in [N : 0..MaxItems, P : 1..MaxPageSize]
    /\ threads = NoThreads /\ lastPull = NoPull

Item(i) == [kind |-> "item", item |-> i]
Complete(reason) == [kind |-> "complete", reason |-> reason]
Failure(err) == [kind |-> "error", err |-> err]

(* Next returns res to its caller; lost holds the item whose decoding     *)
(* failed, if one did                                                      *)
FinishWith(res, lost) ==
    /\ pc' = "idle"
    /\ entry' = NoParser
    /\ result' = res
    /\ hist' = [hist EXCEPT
                  !.calls = @ + 1,
                  !.returned = IF res.kind = "item" THEN Append(@, res.item) ELSE @,
                  !.failed = @ \/ res.kind = "error",
                  !.completes = IF res.kind = "complete" THEN @ + 1 ELSE @,
                  !.completeSince = @ \/ res.kind = "complete",
                  !.first = IF hist.calls = 0
                            THEN [done |-> TRUE, fetched |-> attempts' > 0, result |-> res]
                            ELSE @,
                  !.lost = @ \o lost,
                  !.fetchFailed = @ \/ res = Failure(QueryFailed.err)]

Finish(res) == FinishWith(res, << >>)

(* the end of Next that leaves the cursor on an item it could not decode *)
currentItemStaysOnError(p, decodeOk) ==
    LET item == p.bufferedItems[p.currentBufferIndex + 1]
    IN  [parser |-> IF decodeOk THEN [p EXCEPT !.currentBufferIndex = @ + 1] ELSE p,
         res |-> IF decodeOk THEN Item(item)
                 ELSE Failure([type |-> "decode error"]),
         lost |-> IF decodeOk THEN << >> ELSE << item >>]

(* the end of Next: the item at the cursor is taken, the cursor advanced,  *)
(* and the item decoded for the caller                                     *)
currentItem(p, decodeOk) ==
    LET item == p.bufferedItems[p.currentBufferIndex + 1]
    IN  [parser |-> [p EXCEPT !.currentBufferIndex = @ + 1],
         res |-> IF decodeOk THEN Item(item) ELSE Failure([type |-> "decode error"]),
         lost |-> IF decodeOk THEN << >> ELSE << item >>]

(* Parser.Next: one pass of the refill loop and, once the buffer holds an  *)
(* unread item, the return of that item.  A pass that fetched an empty     *)
(* page leaves the call inside the loop (pc = "loop").                     *)
Next ==
    /\ hist.calls < MaxCalls
    /\ LET p == parser
           a0 == IF pc = "idle" THEN 0 ELSE attempts
           e0 == IF pc = "idle" THEN parser ELSE entry
       IN  IF p.currentBufferIndex # Len(p.bufferedItems)
           THEN \E decodeOk \in BOOLEAN :
                \E t \in { currentItem(p, decodeOk) } :
                  /\ parser' = t.parser
                  /\ attempts' = a0
                  /\ FinishWith(t.res, t.lost)
                  /\ UNCHANGED << tableIndexMetadataCache, providerCalls >>
           ELSE IF allItemsParsed(p)
           THEN /\ attempts' = a0
                /\ Finish(Complete("all items have been parsed"))
                /\ UNCHANGED << parser, tableIndexMetadataCache, providerCalls >>
           ELSE IF maxPaginationReached(p)
           THEN /\ attempts' = a0
                /\ Finish(Complete("max pagination has been reached"))
                /\ UNCHANGED << parser, tableIndexMetadataCache, providerCalls >>
           ELSE \E get \in GetOutcomes(p.tableName) :
                  \E b \in { buildQueryInput(p, tableIndexMetadataCache,
                                              SecondaryIndexSparsenessThreshold, get) } :
                      /\ tableIndexMetadataCache' = b.cache
                      /\ providerCalls' = [providerCalls EXCEPT ![p.tableName] = @ + b.ok]
                      /\ IF b.err # Nil
                         THEN /\ parser' = b.parser
                              /\ attempts' = a0
                              /\ Finish(Failure(b.err))
                         ELSE \E out \in dynamodbService(b.parser.queryInput) :
                                /\ attempts' = a0 + 1
                                /\ IF out.err # Nil
                                   THEN /\ parser' = afterQuery(b.parser, out)
                                        /\ Finish(Failure(out.err))
                                   ELSE \E q \in { afterQuery(b.parser, out) } :
                                            IF Len(q.bufferedItems) = 0
                                            THEN /\ parser' = q
                                                 /\ pc' = "loop"
                                                 /\ entry' = e0
                                                 /\ UNCHANGED << result, hist >>
                                            ELSE \E decodeOk \in BOOLEAN :
                                                 \E t \in { currentItem(q, decodeOk) } :
                                                   /\ parser' = t.parser
                                                   /\ FinishWith(t.res, t.lost)
    /\ UNCHANGED << tables, SecondaryIndexSparsenessThreshold, selVars, store,
                    threads, lastPull >>

(* The setters; the caller runs them between Next calls. *)
Setter(p, name) ==
    LET capSetter == name \in {"SetMaxPagination", "UnsetMaxPagination"}
        keySetter == name = "SetExclusiveStartKey"
    IN  /\ pc = "idle"
        /\ hist.setterCalls < MaxSetterCalls
        /\ parser' = p
        /\ hist' = [hist EXCEPT
                      !.setterCalls = @ + 1,
                      !.capSet = @ \/ name = "SetMaxPagination",
                      !.capLate = @ \/ (capSetter /\ hist.calls > 0),
                      !.keySet = @ \/ keySetter,
                      !.completeSince = @ /\ ~capSetter /\ ~keySetter]
        /\ UNCHANGED << tables, clientVars, selVars, pc, entry, result, attempts, store,
                        threads, lastPull >>

CallSetMaxPagination ==
    \E maxPages \in 0..MaxCap :
        Setter(SetMaxPagination(parser, maxPages), "SetMaxPagination")

CallUnsetMaxPagination == Setter(UnsetMaxPagination(parser), "UnsetMaxPagination")

CallSetLimitPerPage ==
    \E limit \in 1..MaxPageSize :
        Setter(SetLimitPerPage(parser, limit), "SetLimitPerPage")

CallUnsetLimitPerPage == Setter(UnsetLimitPerPage(parser), "UnsetLimitPerPage")

CallSetExclusiveStartKey ==
    \E key \in 0..store.N :
        Setter(SetExclusiveStartKey(parser, key), "SetExclusiveStartKey")

NextParser ==
    \/ Next
    \/ CallSetMaxPagination
    \/ CallUnsetMaxPagination
    \/ CallSetLimitPerPage
    \/ CallUnsetLimitPerPage
    \/ CallSetExclusiveStartKey

Spec == Init /\ [][NextParser]_vars

----------------------------------------------------------------------------
(* Properties of the Parser (Spec) *)

drained(p) == p.currentBufferIndex = Len(p.bufferedItems)

(* a step of Next, as opposed to a setter call *)
NextStep == hist'.setterCalls = hist.setterCalls
(* a step in which a Next call returns *)
ReturnStep == hist'.calls = hist.calls + 1
SetterStep == hist'.setterCalls = hist.setterCalls + 1

AllParsed == Complete("all items have been parsed")
MaxReached == Complete("max pagination has been reached")

FirstItems(n) == [i \in 1..n |-> i]

(* no cap was ever set, the start key was never set, nothing failed *)
Pristine == ~hist.capSet /\ ~hist.keySet /\ ~hist.failed

(* C1: with no max-pagination cap, no start key set and no failure, the    *)
(* k-th Next call returns item k for k = 1..N, in page order, and every    *)
(* later call (the (N+1)th first) returns ErrParsingComplete "all items    *)
(* have been parsed"; the items returned are 1..N, each once.              *)
C1_AllItemsThenParsed ==
    Pristine =>
        /\ hist.returned = FirstItems(Min(hist.calls, store.N))
        /\ (hist.calls >= 1 /\ hist.calls <= store.N => result = Item(hist.calls))
        /\ (hist.calls > store.N => result = AllParsed)

C1_Witness ==
    /\ Pristine /\ store.N = 3 /\ store.P = 2
    /\ hist.calls = 4 /\ hist.returned = << 1, 2, 3 >> /\ result = AllParsed

(* the cap C was set before the first Next and neither the cap nor the     *)
(* start key has been touched since; C pages do not hold all N items       *)
CappedBelow ==
    /\ parser.maxPagesSpecified /\ ~hist.capLate /\ ~hist.keySet
    /\ parser.maxPages * store.P < store.N

C2_Inv ==
    CappedBelow =>
        /\ parser.currentPage <= parser.maxPages
        /\ Len(hist.returned) <= parser.maxPages * store.P
        /\ (result.kind = "complete" =>
                result = MaxReached /\ parser.currentPage = parser.maxPages)

C2_Act ==
    (CappedBelow /\ pc = "idle" /\ drained(parser)
       /\ parser.currentPage = parser.maxPages /\ NextStep)
    => (ReturnStep /\ result' = MaxReached /\ attempts' = 0)

(* C2: with SetMaxPagination(C) before the first Next and C*P < N, at most *)
(* C pages are fetched, at most C*P items are returned, and the Next call  *)
(* made once C pages are fetched and the buffer is drained returns         *)
(* ErrParsingComplete "max pagination has been reached" without a fetch.   *)
C2_CapReached == [] C2_Inv /\ [][C2_Act]_vars

C2_Witness ==
    /\ CappedBelow /\ parser.maxPages = 1 /\ store.P = 2 /\ store.N = 3
    /\ hist.returned = << 1, 2 >> /\ result = MaxReached

CollaboratorFailure(res) ==
    /\ res.kind = "error"
    /\ res.err.type \in {"metadata provider error", "ErrNoViableIndexes", "query error"}

(* C3 as stated: when Next fails on the metadata fetch, the index selection *)
(* or the page fetch, every field of the parser is as it was when that     *)
(* Next call began.                                                        *)
C3_Original ==
    [][ (ReturnStep /\ CollaboratorFailure(result'))
        => parser' = (IF pc = "idle" THEN parser ELSE entry) ]_vars

(* C3 amended: such a failure leaves the continuation key, page counter,   *)
(* buffer, cursor and limits as they were when the failing pass of the     *)
(* refill loop began; the compiled request is untouched by a metadata or   *)
(* selection failure, and on a page-fetch failure it is the request of the *)
(* chosen index stamped with the table name, limit and continuation key.   *)
C3_FailedFetchKeepsCursor ==
    [][ (ReturnStep /\ CollaboratorFailure(result'))
        => /\ [parser' EXCEPT !.queryInput = parser.queryInput] = parser
           /\ (result'.err.type # "query error" => parser' = parser)
           /\ (result'.err.type = "query error" =>
                 /\ parser'.queryInput # NoQueryInput
                 /\ parser'.queryInput.ExclusiveStartKey = parser.exclusiveStartkey
                 /\ parser'.queryInput.TableName = << parser.tableName >>) ]_vars

C3_Witness ==
    /\ CollaboratorFailure(result) /\ result.err.type = "query error"
    /\ hist.returned = << 1, 2 >> /\ parser.currentPage = 1
    /\ parser.exclusiveStartkey = 2 /\ drained(parser)

StampedLimit(p) == IF p.limitPerPageSpecified THEN << p.limitPerPage >> ELSE << >>

(* C7: a setter call leaves the buffer and the cursor as they are; a Next  *)
(* call on a buffer with unread items fetches nothing, consumes the item   *)
(* at the cursor and returns it (or its decode error); and the request a   *)
(* page fetch sends carries the limit and start key set at that moment.    *)
C7_SettersKeepBuffer ==
    [][ /\ (SetterStep =>
              /\ parser'.bufferedItems = parser.bufferedItems
              /\ parser'.currentBufferIndex = parser.currentBufferIndex)
        /\ (NextStep /\ ~drained(parser) =>
              /\ ReturnStep /\ attempts' = 0
              /\ parser' = [parser EXCEPT !.currentBufferIndex = @ + 1]
              /\ result' \in { Item(parser.bufferedItems[parser.currentBufferIndex + 1]),
                               Failure([type |-> "decode error"]) })
        /\ (NextStep /\ attempts' > (IF pc = "idle" THEN 0 ELSE attempts) =>
              /\ parser'.queryInput.Limit = StampedLimit(parser)
              /\ parser'.queryInput.ExclusiveStartKey = parser.exclusiveStartkey) ]_vars

C7_Witness ==
    /\ parser.maxPagesSpecified /\ parser.maxPages = 0 /\ parser.currentPage = 1
    /\ Len(parser.bufferedItems) = 2 /\ parser.currentBufferIndex = 2
    /\ result = Item(parser.bufferedItems[2]) /\ attempts = 0
    /\ hist.returned = << 1, 2 >>

(* C8: the first call to Next on a new Parser makes a page fetch, whatever *)
(* setters were called before it (unless the metadata fetch or the index   *)
(* selection fails first).                                                 *)
C8_FirstNextFetches ==
    (hist.first.done
       /\ ~(hist.first.result.kind = "error"
            /\ hist.first.result.err.type
                 \in {"metadata provider error", "ErrNoViableIndexes"}))
    => hist.first.fetched

----------------------------------------------------------------------------
(* Properties of index selection (SpecSelect) *)

Catalog == tableIndexMetadataCache[SelectTable].Indexes
Infractions(index) == listIndexViabilityInfractions(index, selExpr)
Viable(index) == Len(Infractions(index)) = 0
Score(index) == scoreIndexOnExpr(index, selExpr).score
Returned == selResult.kind = "chosen" /\ selResult.index # NoIndex

(* C4: if chooseIndex returns an index, it is an index of the catalog with *)
(* no viability infraction, and no index of the catalog without            *)
(* infractions has a strictly greater score.                               *)
C4_ChosenViableAndBest ==
    Returned =>
        /\ \E i \in 1..Len(Catalog) : Catalog[i] = selResult.index
        /\ Viable(selResult.index)
        /\ \A j \in 1..Len(Catalog) :
              Viable(Catalog[j]) => ~RatGreater(Score(Catalog[j]), Score(selResult.index))

(* a later index of the catalog was preferred to an earlier viable one *)
C4_Witness ==
    /\ Returned
    /\ \E i, j \in 1..Len(Catalog) :
          /\ i < j /\ Viable(Catalog[i]) /\ Catalog[j] = selResult.index
          /\ RatGreater(Score(Catalog[j]), Score(Catalog[i]))

(* C5: chooseIndex fails with ErrNoViableIndexes exactly when every index  *)
(* of the catalog has an infraction, returns an index exactly when some    *)
(* index has none, and the error lists, in catalog order, every index with *)
(* its infractions.                                                        *)
C5_NoViableIffAllInfringe ==
    selResult.kind = "chosen" =>
        /\ (selResult.err.type = "ErrNoViableIndexes")
             <=> (\A i \in 1..Len(Catalog) : ~Viable(Catalog[i]))
        /\ (selResult.err = Nil /\ selResult.index # NoIndex)
             <=> (\E i \in 1..Len(Catalog) : Viable(Catalog[i]))
        /\ (selResult.err.type = "ErrNoViableIndexes" =>
              selResult.err.IndexErrs =
                 [i \in 1..Len(Catalog) |->
                     ErrIndexNotViable(Catalog[i], Infractions(Catalog[i]))])

C5_Witness ==
    /\ selResult.kind = "chosen" /\ selResult.err.type = "ErrNoViableIndexes"
    /\ Len(Catalog) = 3 /\ Len(selResult.err.IndexErrs) = 3
    /\ \E i \in 1..3 : Len(selResult.err.IndexErrs[i].NotViableReasons) >= 2

----------------------------------------------------------------------------
(* One client serving queries one after another: SpecClient                *)

ClientDescriptions == { Movies(MaxItemCount, 1), MoviesWide(MaxItemCount, 1, 1) }

InitClient ==
    /\ tables \in [TableNames -> ClientDescriptions]
    /\ SecondaryIndexSparsenessThreshold = DefaultSparsenessThreshold
    /\ tableIndexMetadataCache = [t \in TableNames |-> NotCached]
    /\ providerCalls = [t \in TableNames |-> 0]
    /\ selExpr = NoExpr /\ selResult = NoResult
    /\ parser = NoParser /\ pc = "idle" /\ entry = NoParser /\ result = NoResult
    /\ attempts = 0 /\ hist = NoHist /\ store = NoStore
    /\ threads = NoThreads /\ lastPull = NoPull

(* the first Next of a new query on tableName: Client.chooseIndex *)
ClientQuery ==
    \E tableName \in TableNames, expr \in ParserExpressions :
        /\ providerCalls[tableName] < MaxProviderCalls
        /\ \E get \in GetOutcomes(tableName) :
             LET r == chooseIndex(tableIndexMetadataCache,
                                  SecondaryIndexSparsenessThreshold, tableName, expr, get)
             IN  /\ tableIndexMetadataCache' = r.pulled.cache
                 /\ providerCalls' = [providerCalls EXCEPT
                                        ![tableName] = @ + countOk(r.pulled)]
                 /\ lastPull' = [kind |-> "pull", tableName |-> tableName,
                                 fetched |-> r.pulled.fetched, err |-> r.pulled.err,
                                 indexMetadata |-> r.pulled.indexMetadata]
        /\ UNCHANGED << tables, SecondaryIndexSparsenessThreshold, selVars, parserVars,
                        threads >>

(* the caller assigns the public field *)
SetThreshold ==
    /\ \E threshold \in Thresholds \ {SecondaryIndexSparsenessThreshold} :
         SecondaryIndexSparsenessThreshold' = threshold
    /\ UNCHANGED << tables, tableIndexMetadataCache, providerCalls, selVars, parserVars,
                    threads, lastPull >>

(* the table changes in the store: the provider now describes it anew *)
TableChanges ==
    /\ \E tableName \in TableNames :
         \E d \in ClientDescriptions \ {tables[tableName]} :
            tables' = [tables EXCEPT ![tableName] = d]
    /\ UNCHANGED << clientVars, selVars, parserVars, threads, lastPull >>

NextClient == ClientQuery \/ SetThreshold \/ TableChanges

SpecClient == InitClient /\ [][NextClient]_vars

C9_Inv == \A t \in TableNames : providerCalls[t] <= 1

C9_Act ==
    /\ \A t \in TableNames :
          tableIndexMetadataCache[t] # NotCached
             => tableIndexMetadataCache'[t] = tableIndexMetadataCache[t]
    /\ (lastPull' # lastPull \/ tableIndexMetadataCache' # tableIndexMetadataCache
          \/ providerCalls' # providerCalls) =>
          LET t == lastPull'.tableName
              wasCached == tableIndexMetadataCache[t] # NotCached
          IN  /\ lastPull'.fetched <=> ~wasCached
              /\ (wasCached => /\ lastPull'.err = Nil
                               /\ lastPull'.indexMetadata = tableIndexMetadataCache[t])
              /\ (lastPull'.err # Nil =>
                     tableIndexMetadataCache' = tableIndexMetadataCache)
              /\ (lastPull'.fetched /\ lastPull'.err = Nil =>
                     /\ tableIndexMetadataCache'[t] = lastPull'.indexMetadata
                     /\ lastPull'.indexMetadata =
                           parseTableIndexMetadata(tables[t],
                                                   SecondaryIndexSparsenessThreshold))

(* C9: per table name the provider succeeds at most once; a cached catalog *)
(* is never replaced and is what every later pullIndexMetadata returns,    *)
(* without a provider call, whatever the threshold or the table has become *)
(* since; a failed fetch caches nothing, and a pull on an uncached table   *)
(* calls the provider.                                                     *)
C9_FetchedOncePerTable == [] C9_Inv /\ [][C9_Act]_vars

(* a pull answered from the cache with a catalog that a fresh fetch would  *)
(* no longer produce                                                       *)
C9_Witness ==
    /\ lastPull.kind = "pull" /\ ~lastPull.fetched
    /\ providerCalls[lastPull.tableName] = 1
    /\ lastPull.indexMetadata = tableIndexMetadataCache[lastPull.tableName]
    /\ lastPull.indexMetadata #
          parseTableIndexMetadata(tables[lastPull.tableName],
                                  SecondaryIndexSparsenessThreshold)
    /\ SecondaryIndexSparsenessThreshold # DefaultSparsenessThreshold

----------------------------------------------------------------------------
(* Two parsers of one client making their first pull on the same uncached  *)
(* table at the same time: SpecRace.  A map access is not atomic: it lasts *)
(* from its begin step to its end step.                                    *)

ThreadIds == {1, 2}
RaceTable == "Movies"
RaceDescriptions ==
    { Movies(MaxItemCount, 1), MoviesWide(MaxItemCount, 1, 1),
      MoviesTwoGsi(MaxItemCount, 1, 1), Songs(MaxItemCount, 1, 1) }

Thread(at, found, indexMetadata) ==
    [pc |-> at, found |-> found, indexMetadata |-> indexMetadata]

InitRace ==
    /\ tables \in [TableNames -> RaceDescriptions]
    /\ SecondaryIndexSparsenessThreshold \in Thresholds
    /\ tableIndexMetadataCache = [t \in TableNames |-> NotCached]
    /\ providerCalls = [t \in TableNames |-> 0]
    /\ selExpr = NoExpr /\ selResult = NoResult
    /\ parser = NoParser /\ pc = "idle" /\ entry = NoParser /\ result = NoResult
    /\ attempts = 0 /\ hist = NoHist /\ store = NoStore
    /\ threads = [i \in ThreadIds |-> Thread("call", FALSE, NotCached)]
    /\ lastPull = NoPull

raceFrame == << tables, SecondaryIndexSparsenessThreshold, selVars, parserVars, lastPull >>

(* another goroutine is inside a map access that conflicts with an access  *)
(* of kind mine ("lookup" or "store") by goroutine i                       *)
Conflict(i, mine) ==
    \E j \in ThreadIds \ {i} :
        \/ threads[j].pc = "store"
        \/ (mine = "store" /\ threads[j].pc = "lookup")

(* line 92: the map read begins *)
LookupBegin(i) ==
    /\ threads[i].pc = "call"
    /\ threads' = [threads EXCEPT ![i].pc = "lookup"]
    /\ UNCHANGED << tableIndexMetadataCache, providerCalls, raceFrame >>

(* line 92: the map read ends.  Read while another goroutine writes the    *)
(* map, it may see the entry or miss it.                                   *)
LookupEnd(i) ==
    /\ threads[i].pc = "lookup"
    /\ \E found \in (IF Conflict(i, "lookup") THEN BOOLEAN
                     ELSE {tableIndexMetadataCache[RaceTable] # NotCached}) :
         threads' = [threads EXCEPT
                       ![i] = IF found
                              THEN Thread("done", TRUE, tableIndexMetadataCache[RaceTable])
                              ELSE Thread("get", FALSE, NotCached)]
    /\ UNCHANGED << tableIndexMetadataCache, providerCalls, raceFrame >>

(* lines 95-99: the provider is called; its description is parsed *)
ProviderGet(i) ==
    /\ threads[i].pc = "get"
    /\ \E get \in GetOutcomes(RaceTable) :
         IF get.err # Nil
         THEN /\ threads' = [threads EXCEPT ![i].pc = "failed"]
              /\ UNCHANGED providerCalls
         ELSE /\ threads' = [threads EXCEPT
                               ![i] = Thread("parsed", FALSE,
                                         parseTableIndexMetadata(get.table,
                                             SecondaryIndexSparsenessThreshold))]
              /\ providerCalls' = [providerCalls EXCEPT ![RaceTable] = @ + 1]
    /\ UNCHANGED << tableIndexMetadataCache, raceFrame >>

(* line 101: the map write begins *)
StoreBegin(i) ==
    /\ threads[i].pc = "parsed"
    /\ threads' = [threads EXCEPT ![i].pc = "store"]
    /\ UNCHANGED << tableIndexMetadataCache, providerCalls, raceFrame >>

(* line 101: the map write ends *)
StoreEnd(i) ==
    /\ threads[i].pc = "store"
    /\ tableIndexMetadataCache' =
          [tableIndexMetadataCache EXCEPT ![RaceTable] = threads[i].indexMetadata]
    /\ threads' = [threads EXCEPT ![i].pc = "done"]
    /\ UNCHANGED << providerCalls, raceFrame >>

(* the runtime finds a map write overlapping another access of the map and *)
(* ends the process ("concurrent map writes", "concurrent map read and map *)
(* write")                                                                 *)
Crash ==
    /\ \E i \in ThreadIds : threads[i].pc = "store" /\ Conflict(i, "store")
    /\ threads' = [i \in ThreadIds |-> [threads[i] EXCEPT !.pc = "crashed"]]
    /\ UNCHANGED << tableIndexMetadataCache, providerCalls, raceFrame >>

NextRace ==
    \/ \E i \in ThreadIds : LookupBegin(i)
    \/ \E i \in ThreadIds : LookupEnd(i)
    \/ \E i \in ThreadIds : ProviderGet(i)
    \/ \E i \in ThreadIds : StoreBegin(i)
    \/ \E i \in ThreadIds : StoreEnd(i)
    \/ Crash

SpecRace == InitRace /\ [][NextRace]_vars

(* C10: the cache map is guarded: no write of the map by one parser's pull *)
(* overlaps a read or write of it by the other's, and the process is never *)
(* ended by such an overlap.                                               *)
C10_CacheGuarded ==
    /\ \A i \in ThreadIds : ~(threads[i].pc = "store" /\ Conflict(i, "store"))
    /\ \A i \in ThreadIds : threads[i].pc # "crashed"

----------------------------------------------------------------------------
(* Building an expression with the builder methods: SpecExpr               *)

MaxBuilderCalls == 3   \* builder calls made on one expression
MaxValue == 2          \* values given to a condition: 1..MaxValue

(* NewExpression: attributes and additionalConditions are set, filters is  *)
(* left at its zero value, a nil map.  A nil map reads as an empty one.    *)
NewExpression == [filtersIsNil |-> TRUE] @@ NoExpr

(* expr.filters[attr] = f.  Assignment to an entry of a nil map panics.    *)
setFilter(expr, attr, f) ==
    IF expr.filtersIsNil
    THEN [expr |-> expr, panicked |-> TRUE]
    ELSE [expr |-> [expr EXCEPT !.filters =
                       [a \in (DOMAIN expr.filters) \cup {attr} |->
                           IF a = attr THEN f ELSE expr.filters[a]]],
          panicked |-> FALSE]

FilterOf(kind, v) == [Filter(kind) EXCEPT !.value = v]

Equal(expr, attr, v) == setFilter(expr, attr, FilterOf("equalsFilter", v))
LessThan(expr, attr, v) == setFilter(expr, attr, FilterOf("lessThanFilter", v))
GreaterThan(expr, attr, v) == setFilter(expr, attr, FilterOf("greaterThanFilter", v))
LessThanEqual(expr, attr, v) == setFilter(expr, attr, FilterOf("lessThanEqualFilter", v))
GreaterThanEqual(expr, attr, v) ==
    setFilter(expr, attr, FilterOf("greaterThanEqualFilter", v))
Between(expr, attr, lowval, highval) ==
    setFilter(expr, attr, FilterOf("betweenFilter", << lowval, highval >>))
BeginsWith(expr, attr, prefix) == setFilter(expr, attr, FilterOf("beginsWithFilter", prefix))

OrderBy(expr, attr, ascending) ==
    [expr EXCEPT !.orderSpecified = TRUE, !.orderAttribute = attr,
                 !.orderAscending = ascending]

Select(expr, attrs) ==
    [expr EXCEPT !.attributesSpecified = TRUE, !.attributes = @ \o attrs]

ConsistentRead(expr, val) == [expr EXCEPT !.consistentRead = val]

SelectArgs == { << >>, << "title" >>, << "rating", "year" >> }

NoCall == [kind |-> "builder", calls |-> 0, panicked |-> FALSE]

InitExpr ==
    /\ tables = [t \in TableNames |-> Movies(MaxItemCount, 1)]
    /\ SecondaryIndexSparsenessThreshold = DefaultSparsenessThreshold
    /\ tableIndexMetadataCache = [t \in TableNames |-> NotCached]
    /\ providerCalls = [t \in TableNames |-> 0]
    /\ selExpr = NewExpression
    /\ selResult = NoCall
    /\ parser = NoParser /\ pc = "idle" /\ entry = NoParser /\ result = NoResult
    /\ attempts = 0 /\ hist = NoHist /\ store = NoStore
    /\ threads = NoThreads /\ lastPull = NoPull

exprFrame ==
    UNCHANGED << tables, clientVars, parserVars, threads, lastPull >>

(* the caller may call a builder: none has panicked so far *)
CanCall == ~selResult.panicked /\ selResult.calls < MaxBuilderCalls

(* a condition builder returned r (or panicked) *)
Condition(op, attr, r) ==
    /\ CanCall
    /\ selExpr' = r.expr
    /\ selResult' = [kind |-> "builder", calls |-> selResult.calls + 1,
                     panicked |-> r.panicked, op |-> op, attr |-> attr]
    /\ exprFrame

(* a builder that touches no map returned expr *)
Plain(op, expr) ==
    /\ CanCall
    /\ selExpr' = expr
    /\ selResult' = [kind |-> "builder", calls |-> selResult.calls + 1,
                     panicked |-> FALSE, op |-> op, attr |-> ""]
    /\ exprFrame

CallEqual ==
    \E attr \in Attrs, v \in 1..MaxValue :
        Condition("equalsFilter", attr, Equal(selExpr, attr, v))
CallLessThan ==
    \E attr \in Attrs, v \in 1..MaxValue :
        Condition("lessThanFilter", attr, LessThan(selExpr, attr, v))
CallGreaterThan ==
    \E attr \in Attrs, v \in 1..MaxValue :
        Condition("greaterThanFilter", attr, GreaterThan(selExpr, attr, v))
CallLessThanEqual ==
    \E attr \in Attrs, v \in 1..MaxValue :
        Condition("lessThanEqualFilter", attr, LessThanEqual(selExpr, attr, v))
CallGreaterThanEqual ==
    \E attr \in Attrs, v \in 1..MaxValue :
        Condition("greaterThanEqualFilter", attr, GreaterThanEqual(selExpr, attr, v))
CallBetween ==
    \E attr \in Attrs, v \in 1..MaxValue :
        Condition("betweenFilter", attr, Between(selExpr, attr, 1, v))
CallBeginsWith ==
    \E attr \in Attrs, v \in 1..MaxValue :
        Condition("beginsWithFilter", attr, BeginsWith(selExpr, attr, v))

(* Key(attr).Equal(v): a ConditionKey on a fresh NewExpression *)
CallKeyEqual ==
    /\ selResult.calls = 0
    /\ \E attr \in Attrs, v \in 1..MaxValue :
          Condition("equalsFilter", attr, Equal(NewExpression, attr, v))

CallOrderBy ==
    \E attr \in {"title", "rating"}, ascending \in BOOLEAN :
        Plain("OrderBy", OrderBy(selExpr, attr, ascending))
CallSelect == \E attrs \in SelectArgs : Plain("Select", Select(selExpr, attrs))
CallConsistentRead == \E val \in BOOLEAN : Plain("ConsistentRead", ConsistentRead(selExpr, val))

NextExpr ==
    \/ CallEqual \/ CallLessThan \/ CallGreaterThan \/ CallLessThanEqual
    \/ CallGreaterThanEqual \/ CallBetween \/ CallBeginsWith \/ CallKeyEqual
    \/ CallOrderBy \/ CallSelect \/ CallConsistentRead

SpecExpr == InitExpr /\ [][NextExpr]_vars

(* C11: a call of a condition builder on attribute a completes, leaves on  *)
(* a exactly the condition of that call, and leaves the condition on every *)
(* other attribute as it was.                                              *)
C11_BuilderSetsCondition ==
    [][(selResult'.calls = selResult.calls + 1 /\ selResult'.attr # "") =>
          /\ ~selResult'.panicked
          /\ DOMAIN selExpr'.filters = (DOMAIN selExpr.filters) \cup {selResult'.attr}
          /\ selExpr'.filters[selResult'.attr].kind = selResult'.op
          /\ \A a \in (DOMAIN selExpr.filters) \ {selResult'.attr} :
                selExpr'.filters[a] = selExpr.filters[a]]_vars

----------------------------------------------------------------------------
(* Building the catalog of a table: SpecCatalog                            *)

CatalogTable == "Movies"

(* sparseness thresholds, in tenths: negative, zero, inside (0, 1], above 1 *)
CatalogThresholds == {-10, 0, 5, 10, DefaultSparsenessThreshold, 20}

InitCatalog ==
    /\ \E d \in TableDescriptions : tables = [t \in TableNames |-> d]
    /\ SecondaryIndexSparsenessThreshold \in CatalogThresholds
    /\ tableIndexMetadataCache = [t \in TableNames |-> NotCached]
    /\ providerCalls = [t \in TableNames |-> 0]
    /\ selExpr = NoExpr /\ selResult = NoResult
    /\ parser = NoParser /\ pc = "idle" /\ entry = NoParser /\ result = NoResult
    /\ attempts = 0 /\ hist = NoHist /\ store = NoStore
    /\ threads = NoThreads /\ lastPull = NoPull

(* Client.pullIndexMetadata for a table not yet in the cache *)
BuildCatalog ==
    /\ tableIndexMetadataCache[CatalogTable] = NotCached
    /\ \E get \in GetOutcomes(CatalogTable) :
         \E r \in { pullIndexMetadata(tableIndexMetadataCache,
                                      SecondaryIndexSparsenessThreshold,
                                      CatalogTable, get) } :
            /\ tableIndexMetadataCache' = r.cache
            /\ providerCalls' = [providerCalls EXCEPT ![CatalogTable] = @ + countOk(r)]
            /\ lastPull' = [kind |-> "pull", tableName |-> CatalogTable,
                            fetched |-> r.fetched, err |-> r.err,
                            indexMetadata |-> r.indexMetadata]
    /\ UNCHANGED << tables, SecondaryIndexSparsenessThreshold, selVars, parserVars,
                    threads >>

NextCatalog == BuildCatalog

SpecCatalog == InitCatalog /\ [][NextCatalog]_vars

Built == tableIndexMetadataCache[CatalogTable] # NotCached
BuiltIndexes == tableIndexMetadataCache[CatalogTable].Indexes
Secondary(i) == i \in 2..Len(BuiltIndexes)

(* the index's sort key is a key attribute of the primary index *)
SortsOnPrimaryKey(index) ==
    /\ index.IsComposite
    /\ \/ index.SortKey = BuiltIndexes[1].PartitionKey
       \/ BuiltIndexes[1].IsComposite /\ index.SortKey = BuiltIndexes[1].SortKey

(* C12: in a catalog built with a threshold <= 0 no index is sparse, and   *)
(* in a catalog built with a threshold > 1 every composite secondary index *)
(* is sparse, whatever the item counts of the table and of the index.      *)
C12_ThresholdForcesSparseness ==
    Built =>
        /\ SecondaryIndexSparsenessThreshold <= 0 =>
              \A i \in 1..Len(BuiltIndexes) : ~BuiltIndexes[i].IsSparse
        /\ SecondaryIndexSparsenessThreshold > 10 =>
              \A i \in 1..Len(BuiltIndexes) :
                 (Secondary(i) /\ BuiltIndexes[i].IsComposite) => BuiltIndexes[i].IsSparse

----------------------------------------------------------------------------
(* Further properties of index selection (SpecSelect) *)

Chosen == selResult.kind = "chosen"
Primary == Catalog[1]
Names(indexes) == [i \in 1..Len(indexes) |-> indexes[i].Name]
SameRat(a, b) == a.num * b.den = b.num * a.den

(* the partition key the table's descriptor declares *)
PrimaryPartitionKey ==
    LET keySchema == tables[SelectTable].KeySchema
    IN  keySchema[CHOOSE i \in 1..Len(keySchema) : keySchema[i].KeyType = "HASH"].AttributeName

HasFilterOn(attr) == attr \in DOMAIN selExpr.filters
HasEqualOn(attr) == HasFilterOn(attr) /\ selExpr.filters[attr].kind = "equalsFilter"

KeyText == "expression does not contain an equals condition on attribute"
ConsistentText == "global secondary index does not support consistent read"
OrderText == "expression specifies order, so it requires an index with sort key"
IncludeText == "index does not include attributes"
ProjectAllText == "expression does not select attributes, so it requires an index that projects all"
SparseText == "expression does not filter on sparse secondary index's sort key"

(* the reasons of the list that carry the given text *)
ReasonsWith(reasons, text) ==
    LET Test(r) == r[1] = text
    IN  SelectSeq(reasons, Test)

HasReason(reasons, text) == \E k \in 1..Len(reasons) : reasons[k][1] = text

PrimaryIsFull ==
    /\ Primary.Name = tablePrimaryIndexName
    /\ Primary.PartitionKey = PrimaryPartitionKey
    /\ Primary.ConsistentReadable /\ ~Primary.IsSparse /\ Primary.IncludesAllAttributes

MoviesExample ==
    /\ \E tc, gc \in 0..MaxItemCount : tables[SelectTable] = Movies(tc, gc)
    /\ DOMAIN selExpr.filters = {"director", "title"}
    /\ selExpr.filters["director"].kind = "equalsFilter"
    /\ selExpr.filters["title"].kind = "beginsWithFilter"
    /\ ~selExpr.attributesSpecified /\ ~selExpr.orderSpecified /\ ~selExpr.consistentRead

(* C15 as stated: on the example, selection returns the primary index and  *)
(* ratingIndex's only infraction reads "missing Equal condition on         *)
(* attribute: rating".                                                     *)
C15_Original ==
    (MoviesExample /\ Chosen) =>
        /\ selResult.err = Nil /\ selResult.index.Name = tablePrimaryIndexName
        /\ Catalog[2].Name = "ratingIndex"
        /\ Infractions(Catalog[2]) =
              << << "missing Equal condition on attribute", << "rating" >> >> >>

(* C15: on the example, selection returns the primary index and            *)
(* ratingIndex's only infraction reads "expression does not contain an     *)
(* equals condition on attribute: rating".                                 *)
C15_MoviesExample ==
    (MoviesExample /\ Chosen) =>
        /\ selResult.err = Nil /\ selResult.index.Name = tablePrimaryIndexName
        /\ Catalog[2].Name = "ratingIndex"
        /\ Infractions(Catalog[2]) = << << KeyText, << "rating" >> >> >>

C15_Witness == MoviesExample /\ Chosen /\ Returned /\ Catalog[2].Size = 0

(* the multiplier C16 states *)
StatedMultiplier(index) ==
    IF ~index.IsComposite THEN Rat(10, 10)
    ELSE IF ~HasFilterOn(index.SortKey) THEN Rat(2, 10)
    ELSE CASE selExpr.filters[index.SortKey].kind = "equalsFilter"     -> Rat(25, 10)
           [] selExpr.filters[index.SortKey].kind = "betweenFilter"    -> Rat(18, 10)
           [] selExpr.filters[index.SortKey].kind = "beginsWithFilter" -> Rat(15, 10)
           [] OTHER                                                    -> Rat(10, 10)

(* C16: the score of a viable index that is not flagged maximal is its     *)
(* SparsityMultiplier times 2.5 / 1.8 / 1.5 for an Equal / Between /       *)
(* BeginsWith filter on its sort key, 0.2 for a composite index with no    *)
(* filter on its sort key, and 1.0 for any other filter kind and for every *)
(* non-composite index.                                                    *)
C16_SortKeyMultiplier ==
    Chosen =>
        \A i \in 1..Len(Catalog) :
            (Viable(Catalog[i]) /\ ~Catalog[i].HasMaxSparsityMultiplier) =>
                SameRat(Score(Catalog[i]),
                        RatMul(Catalog[i].SparsityMultiplier, StatedMultiplier(Catalog[i])))

(* primary, then global secondary indexes, then local secondary indexes,   *)
(* each in descriptor order                                                *)
DescriptorOrder ==
    LET table == tables[SelectTable]
    IN  << tablePrimaryIndexName >>
        \o [i \in 1..Len(table.GlobalSecondaryIndexes) |->
               table.GlobalSecondaryIndexes[i].IndexName]
        \o [i \in 1..Len(table.LocalSecondaryIndexes) |->
               table.LocalSecondaryIndexes[i].IndexName]

(* C17: the catalog lists the primary index, then the global, then the     *)
(* local secondary indexes in descriptor order, and chooseIndex returns    *)
(* the first index in that order among the viable indexes of greatest      *)
(* score: every earlier viable index scores strictly less, no later one    *)
(* scores more.                                                            *)
C17_TieGoesToFirst ==
    /\ Chosen => Names(Catalog) = DescriptorOrder
    /\ Returned =>
          \E i \in 1..Len(Catalog) :
             /\ Catalog[i] = selResult.index
             /\ Viable(Catalog[i])
             /\ \A j \in 1..Len(Catalog) :
                   Viable(Catalog[j]) =>
                      IF j < i THEN RatLess(Score(Catalog[j]), Score(Catalog[i]))
                      ELSE ~RatGreater(Score(Catalog[j]), Score(Catalog[i]))

(* a later viable index scored the same as the index returned *)
C17_Witness ==
    /\ Returned
    /\ \E i, j \in 1..Len(Catalog) :
          /\ i < j /\ Catalog[i] = selResult.index /\ Viable(Catalog[j])
          /\ SameRat(Score(Catalog[j]), Score(Catalog[i]))

Flagged(index) == Viable(index) /\ index.HasMaxSparsityMultiplier

(* C18: a viable index flagged with the maximal sparsity multiplier scores *)
(* the maximum value, and when there is one, chooseIndex returns a flagged *)
(* viable index, not a viable index without the flag, wherever the flagged *)
(* index stands in the catalog.                                            *)
C18_EmptyIndexPreferred ==
    Chosen =>
        /\ \A i \in 1..Len(Catalog) :
              Flagged(Catalog[i]) => Score(Catalog[i]) = Rat(MaxFloat64, 1)
        /\ (\E i \in 1..Len(Catalog) : Flagged(Catalog[i])) =>
              Returned /\ Flagged(selResult.index)

(* the flagged index returned stands after a viable index without the flag *)
C18_Witness ==
    /\ Returned /\ Flagged(selResult.index)
    /\ \E i, j \in 1..Len(Catalog) :
          /\ i < j /\ Catalog[j] = selResult.index
          /\ Viable(Catalog[i]) /\ ~Catalog[i].HasMaxSparsityMultiplier

Count(b) == IF b THEN 1 ELSE 0

ConsistencyBroken(index) == selExpr.consistentRead /\ ~index.ConsistentReadable
OrderBroken(index) == selExpr.orderSpecified /\ selExpr.orderAttribute # index.SortKey
ProjectionBroken(index) ==
    /\ ~index.IncludesAllAttributes
    /\ selExpr.attributesSpecified =>
          \E k \in 1..Len(selExpr.attributes) : selExpr.attributes[k] \notin index.AttributeSet
SparsenessBroken(index) ==
    index.IsSparse /\ ~HasFilterOn(index.SortKey) /\ selExpr.orderAttribute # index.SortKey

(* C19: the infraction list of an index holds one reason for each rule the *)
(* index breaks; it holds the missing-equals reason for the partition key  *)
(* exactly when the expression has no condition on the partition key or a  *)
(* condition of another kind than Equal; and chooseIndex treats an index   *)
(* as viable exactly when its list is empty.                               *)
C19_AllInfractionsReported ==
    Chosen =>
        \A i \in 1..Len(Catalog) :
           LET index == Catalog[i]
               reasons == Infractions(index)
           IN  /\ ReasonsWith(reasons, KeyText) =
                     IF HasEqualOn(index.PartitionKey) THEN << >>
                     ELSE << Reason(KeyText, << index.PartitionKey >>) >>
               /\ HasReason(reasons, ConsistentText) <=> ConsistencyBroken(index)
               /\ HasReason(reasons, OrderText) <=> OrderBroken(index)
               /\ (HasReason(reasons, IncludeText) \/ HasReason(reasons, ProjectAllText))
                     <=> ProjectionBroken(index)
               /\ HasReason(reasons, SparseText) <=> SparsenessBroken(index)
               /\ Len(reasons) =
                     Count(~HasEqualOn(index.PartitionKey)) + Count(ConsistencyBroken(index))
                     + Count(OrderBroken(index)) + Count(ProjectionBroken(index))
                     + Count(SparsenessBroken(index))
               /\ selResult.index = index => Len(reasons) = 0
               /\ selResult.err.type = "ErrNoViableIndexes" =>
                     /\ Len(reasons) > 0
                     /\ selResult.err.IndexErrs[i].NotViableReasons = reasons

(* selection failed; an index whose partition key carries a condition that *)
(* is not Equal broke three rules or more                                  *)
C19_Witness ==
    /\ Chosen /\ selResult.err.type = "ErrNoViableIndexes"
    /\ \E i \in 1..Len(Catalog) :
          /\ HasFilterOn(Catalog[i].PartitionKey) /\ ~HasEqualOn(Catalog[i].PartitionKey)
          /\ Len(selResult.err.IndexErrs[i].NotViableReasons) >= 3

(* the selected attributes that index does not hold, in Select order *)
Absent(index) ==
    LET Test(a) == a \notin index.AttributeSet
    IN  SelectSeq(selExpr.attributes, Test)

(* C20: an index that includes all attributes gets neither projection      *)
(* infraction; one that does not gets, if Select was used, the infraction  *)
(* "index does not include attributes" listing exactly the selected        *)
(* attributes it lacks (no infraction if it lacks none), and if Select was *)
(* never used, the infraction asking for an index that projects all.       *)
C20_ProjectionCoverage ==
    Chosen =>
        \A i \in 1..Len(Catalog) :
           LET index == Catalog[i]
               reasons == Infractions(index)
           IN  IF index.IncludesAllAttributes
               THEN ~HasReason(reasons, IncludeText) /\ ~HasReason(reasons, ProjectAllText)
               ELSE IF selExpr.attributesSpecified
               THEN /\ ~HasReason(reasons, ProjectAllText)
                    /\ ReasonsWith(reasons, IncludeText) =
                          IF Len(Absent(index)) = 0 THEN << >>
                          ELSE << Reason(IncludeText, Absent(index)) >>
               ELSE /\ ~HasReason(reasons, IncludeText)
                    /\ ReasonsWith(reasons, ProjectAllText) =
                          << Reason(ProjectAllText, << >>) >>

(* selection ran with Select("title") on a keys-only index lacking title,  *)
(* which got "index does not include attributes: title"                    *)
C20_Witness ==
    /\ Chosen
    /\ selExpr.attributes = << "title" >>
    /\ \E i \in 1..Len(Catalog) :
          /\ ~Catalog[i].IncludesAllAttributes
          /\ "title" \notin Catalog[i].AttributeSet
          /\ ReasonsWith(Infractions(Catalog[i]), IncludeText) =
                << Reason(IncludeText, << "title" >>) >>

----------------------------------------------------------------------------
(* A new parser's first buildQueryInput, as a function of the table        *)
(* description, the threshold and the expression: SpecCompile.  Several    *)
(* parsers are built from the one expression, one after the other.         *)

MaxParsers == 2

CompileDescriptions ==
    { MoviesWide(MaxItemCount, gc, 1) : gc \in 0..MaxItemCount }
    \cup { Movies(MaxItemCount, 1), Songs(MaxItemCount, 1, 1),
           SongsKeysOnly(MaxItemCount, 1) }

CompileThresholds == {0, DefaultSparsenessThreshold}

(* the predicates handed to Expression.Filter are opaque *)
ExtraConditions == { << >>, << "p1", "p2" >> }

(* every attribute may carry a filter, whatever MaxFilters is *)
CompileFilterMaps ==
    FilterMaps
    \cup { f \in [Attrs -> { Filter(k) : k \in FilterKinds }] :
             Cardinality({ a \in Attrs : f[a].kind # "equalsFilter" }) <= 1 }

CompileExpressions ==
    { NewExpr(f, s[1], s[2], o[1], o[2], o[1] /\ a, c, x) :
        f \in CompileFilterMaps, s \in SelectChoices, o \in OrderChoices,
        a \in BOOLEAN, c \in BOOLEAN, x \in ExtraConditions }

InitCompile ==
    /\ \E d \in CompileDescriptions : tables = [t \in TableNames |-> d]
    /\ SecondaryIndexSparsenessThreshold \in CompileThresholds
    /\ tableIndexMetadataCache =
          [t \in TableNames |->
              IF t = SelectTable
              THEN parseTableIndexMetadata(tables[t], SecondaryIndexSparsenessThreshold)
              ELSE NotCached]
    /\ providerCalls = [t \in TableNames |-> IF t = SelectTable THEN 1 ELSE 0]
    /\ selExpr \in CompileExpressions
    /\ selResult = NoResult
    /\ parser = NoParser /\ pc = "idle" /\ entry = NoParser /\ result = NoResult
    /\ attempts = 0 /\ hist = NoHist /\ store = NoStore
    /\ threads = NoThreads /\ lastPull = NoPull

(* the expression once constructQueryInputGivenIndex has returned: the     *)
(* deletes act on the local map the filters were copied into, and the      *)
(* attributes and extra predicates are only read                           *)
exprAfterConstructAliased(expr, index) ==
    LET filters == expr.filters
        afterPk == [a \in (DOMAIN filters) \ {index.PartitionKey} |-> filters[a]]
    IN  [expr EXCEPT !.filters =
            IF index.IsComposite
            THEN [a \in (DOMAIN afterPk) \ {index.SortKey} |-> afterPk[a]]
            ELSE afterPk]

exprAfterConstruct(expr, index) == expr

Parsers == IF selResult.kind = "compiled" THEN selResult.parsers ELSE 0

(* Client.NewQuery(SelectTable, selExpr) followed by the new parser's      *)
(* buildQueryInput                                                         *)
CompileCall ==
    /\ Parsers < MaxParsers
    /\ \E get \in { GetOk(tables[SelectTable]) } :
       \E chosen \in { chooseIndex(tableIndexMetadataCache,
                                   SecondaryIndexSparsenessThreshold,
                                   SelectTable, selExpr, get) } :
       \E b \in { buildQueryInputWith(NewQuery(SelectTable, selExpr),
                                      tableIndexMetadataCache, chosen) } :
          /\ selResult' = [kind |-> "compiled", parsers |-> Parsers + 1,
                           index |-> chosen.index, err |-> b.err,
                           queryInput |-> b.parser.queryInput]
          /\ selExpr' = IF chosen.err = Nil
                        THEN exprAfterConstruct(selExpr, chosen.index) ELSE selExpr
          /\ tableIndexMetadataCache' = b.cache
          /\ providerCalls' = [providerCalls EXCEPT ![SelectTable] = @ + b.ok]
    /\ UNCHANGED << tables, SecondaryIndexSparsenessThreshold, parserVars,
                    threads, lastPull >>

NextCompile == CompileCall

SpecCompile == InitCompile /\ [][NextCompile]_vars

Compiled == selResult.kind = "compiled"

(* C21: in the catalog a new parser selects from, a sparse index gets the  *)
(* infraction naming its unreferenced sort key exactly when the expression *)
(* has no filter of any kind on that sort key and the sort key is not the  *)
(* OrderBy attribute; the sort key appearing in Select changes nothing,    *)
(* and an index that is not sparse never gets the infraction.              *)
C21_SparseNeedsSortKey ==
    Compiled =>
        \A i \in 1..Len(Catalog) :
           LET index == Catalog[i]
               reasons == Infractions(index)
               referenced == HasFilterOn(index.SortKey)
                             \/ (selExpr.orderSpecified
                                 /\ selExpr.orderAttribute = index.SortKey)
           IN  ReasonsWith(reasons, SparseText) =
                  IF index.IsSparse /\ ~referenced
                  THEN << << SparseText, << index.SortKey >> >> >>
                  ELSE << >>

(* a parser was built on the wide movie table: its sparse index on         *)
(* (rating, year) got the infraction although year is selected             *)
C21_Witness ==
    /\ Compiled
    /\ selExpr.attributes = << "rating", "year" >>
    /\ \E i \in 1..Len(Catalog) :
          /\ Catalog[i].IsSparse
          /\ Catalog[i].SortKey = "year"
          /\ ReasonsWith(Infractions(Catalog[i]), SparseText) =
                << << SparseText, << "year" >> >> >>

(* the positions of the catalog built from the global secondary indexes *)
IsGlobal(i) == 1 < i /\ i <= 1 + Len(tables[SelectTable].GlobalSecondaryIndexes)

GlobalNames ==
    { tables[SelectTable].GlobalSecondaryIndexes[k].IndexName :
        k \in 1..Len(tables[SelectTable].GlobalSecondaryIndexes) }

(* C22: an index of the catalog is not consistent-readable exactly when it *)
(* was built from a global secondary index; it gets the consistent-read    *)
(* infraction exactly when it is global and the expression asked for       *)
(* ConsistentRead(true), so that the primary and the local indexes never   *)
(* get it and no index gets it without the request; and an index selected  *)
(* under ConsistentRead(true) is never a global one.                       *)
C22_ConsistentReadExcludesGlobal ==
    Compiled =>
        /\ \A i \in 1..Len(Catalog) :
              /\ Catalog[i].ConsistentReadable = ~IsGlobal(i)
              /\ ReasonsWith(Infractions(Catalog[i]), ConsistentText) =
                    IF selExpr.consistentRead /\ IsGlobal(i)
                    THEN << << ConsistentText, << >> >> >> ELSE << >>
        /\ (selExpr.consistentRead /\ selResult.index # NoIndex)
              => selResult.index.Name \notin GlobalNames

(* a parser was built under ConsistentRead(true) on a table with a global  *)
(* index whose partition key has an Equal condition: the global index got  *)
(* the infraction and another index was selected                           *)
C22_Witness ==
    /\ Compiled
    /\ selExpr.consistentRead
    /\ selResult.index # NoIndex
    /\ \E i \in 1..Len(Catalog) :
          /\ IsGlobal(i)
          /\ HasEqualOn(Catalog[i].PartitionKey)
          /\ HasReason(Infractions(Catalog[i]), ConsistentText)

(* the descriptor the catalog's ith index was built from, for i > 1 *)
DescriptorOf(i) ==
    LET gsis == tables[SelectTable].GlobalSecondaryIndexes
        lsis == tables[SelectTable].LocalSecondaryIndexes
    IN  IF IsGlobal(i) THEN gsis[i - 1] ELSE lsis[i - 1 - Len(gsis)]

KeyNames(keySchema) == { keySchema[k].AttributeName : k \in 1..Len(keySchema) }

(* C23: for every secondary index that does not include all attributes,    *)
(* AttributeSet holds the index's own partition and sort key, the primary  *)
(* table's partition and sort key and, under an INCLUDE projection, the    *)
(* declared extra attributes, and nothing else; and when Select names only *)
(* attributes of that set the index gets no missing-attributes infraction. *)
C23_KeysAlwaysProjected ==
    Compiled =>
        \A i \in 2..Len(Catalog) :
           LET index == Catalog[i]
               desc == DescriptorOf(i)
               extras == IF desc.Projection.ProjectionType = "INCLUDE"
                         THEN SeqToSet(desc.Projection.NonKeyAttributes) ELSE {}
               expected == KeyNames(desc.KeySchema)
                           \cup KeyNames(tables[SelectTable].KeySchema) \cup extras
           IN  /\ index.IncludesAllAttributes = (desc.Projection.ProjectionType = "ALL")
               /\ ~index.IncludesAllAttributes =>
                     /\ index.AttributeSet = expected
                     /\ (selExpr.attributesSpecified
                         /\ SeqToSet(selExpr.attributes) \subseteq expected)
                           => ~HasReason(Infractions(index), IncludeText)

(* a parser was built with Select("title") on the wide movie table: title  *)
(* is the table's sort key, so the keys-only index on (rating, year) holds *)
(* it and got no missing-attributes infraction                             *)
C23_Witness ==
    /\ Compiled
    /\ selExpr.attributes = << "title" >>
    /\ \E i \in 2..Len(Catalog) :
          /\ ~Catalog[i].IncludesAllAttributes
          /\ Catalog[i].AttributeSet = {"rating", "year", "director", "title"}
          /\ ~HasReason(Infractions(Catalog[i]), IncludeText)

(* the parser's buildQueryInput returned a request *)
Requested == Compiled /\ selResult.err = Nil

(* how often attr is the subject of a clause of the key condition, and of  *)
(* the filter conjunction                                                  *)
InKey(q, attr) ==
    Cardinality({ k \in 1..Len(q.KeyConditionExpression) :
                    q.KeyConditionExpression[k].attr = attr })

InFilter(q, attr) ==
    LET B == q.FilterExpression.clauses
    IN  BagCardinality([c \in { d \in DOMAIN B : d.attr = attr } |-> B[c]])

(* C24: in the request compiled for the selected index every filter of the *)
(* expression appears in exactly one place with its own operator and       *)
(* value: the Equal on the index's partition key first in the key          *)
(* condition and not in the filter conjunction, the filter on a composite  *)
(* index's sort key second in the key condition and not in the filter      *)
(* conjunction, every other filter exactly once in the filter conjunction  *)
(* and not in the key condition; the key condition and the conjunction     *)
(* hold nothing else, the extra predicates are all in the filter in their  *)
(* order, and a non-composite index gets no sort-key clause.               *)
C24_EachFilterInOnePlace ==
    Requested =>
        LET q == selResult.queryInput
            index == selResult.index
            inKey == {index.PartitionKey}
                     \cup (IF index.IsComposite /\ HasFilterOn(index.SortKey)
                           THEN {index.SortKey} ELSE {})
        IN  /\ \A a \in DOMAIN selExpr.filters :
                  /\ InKey(q, a) = (IF a \in inKey THEN 1 ELSE 0)
                  /\ InFilter(q, a) = (IF a \in inKey THEN 0 ELSE 1)
            /\ \A k \in 1..Len(q.KeyConditionExpression) :
                  LET c == q.KeyConditionExpression[k]
                  IN  /\ c.attr = (IF k = 1 THEN index.PartitionKey ELSE index.SortKey)
                      /\ HasFilterOn(c.attr)
                      /\ c.kind = selExpr.filters[c.attr].kind
                      /\ c.value = selExpr.filters[c.attr].value
            /\ \A c \in BagToSet(q.FilterExpression.clauses) :
                  /\ HasFilterOn(c.attr)
                  /\ c.kind = selExpr.filters[c.attr].kind
                  /\ c.value = selExpr.filters[c.attr].value
            /\ q.FilterExpression.additional = selExpr.additionalConditions
            /\ ~index.IsComposite => Len(q.KeyConditionExpression) = 1

(* a request was compiled for a composite index from filters on its        *)
(* partition key, on its sort key and on a third attribute, with two extra *)
(* predicates                                                              *)
C24_Witness ==
    /\ Requested
    /\ selResult.index.IsComposite
    /\ Len(selResult.queryInput.KeyConditionExpression) = 2
    /\ BagCardinality(selResult.queryInput.FilterExpression.clauses) = 1
    /\ selResult.queryInput.FilterExpression.additional = << "p1", "p2" >>

(* C25: the request compiled for the selected index carries an index name, *)
(* the index's own, exactly when that index is not the catalog's primary   *)
(* one, and never the name "#primary"; it carries the consistent-read flag *)
(* (true) exactly when the expression asked for consistent read; and it    *)
(* carries the scan-direction flag exactly when an ordering was specified, *)
(* equal to the ascending argument of OrderBy.                             *)
C25_RequestFlags ==
    Requested =>
        LET q == selResult.queryInput
            index == selResult.index
        IN  /\ q.IndexName = (IF index = Primary THEN << >> ELSE << index.Name >>)
            /\ q.IndexName # << "#primary" >>
            /\ q.ConsistentRead = (IF selExpr.consistentRead THEN << TRUE >> ELSE << >>)
            /\ q.ScanIndexForward =
                  (IF selExpr.orderSpecified THEN << selExpr.orderAscending >> ELSE << >>)

(* a request was compiled for a secondary index under ConsistentRead(true) *)
(* and a descending OrderBy: it names the index and has both flags         *)
C25_Witness ==
    /\ Requested
    /\ selResult.index # Primary
    /\ selExpr.consistentRead
    /\ selExpr.orderSpecified /\ ~selExpr.orderAscending
    /\ selResult.queryInput.IndexName = << selResult.index.Name >>
    /\ selResult.queryInput.ConsistentRead = << TRUE >>
    /\ selResult.queryInput.ScanIndexForward = << FALSE >>

C28_CompilationNeverAborts ==
    Compiled =>
        /\ selResult.err # Aborted
        /\ \A i \in 1..Len(Catalog) :
              Infractions(Catalog[i]) = << >> =>
                 LET q == constructQueryInputGivenIndex(selExpr, Catalog[i])
                 IN  /\ ~q.aborted
                     /\ q.HasProjection => selExpr.attributesSpecified

----------------------------------------------------------------------------
(* Failures and the order of the items (Spec) *)

QueryError == Failure([type |-> "query error"])
DecodeError == Failure([type |-> "decode error"])

(* the step issued a fetch *)
Fetched == attempts' = (IF pc = "idle" THEN 0 ELSE attempts) + 1

(* the per-page limit a request built for parser p carries *)
LimitOf(p) == IF p.limitPerPageSpecified THEN << p.limitPerPage >> ELSE << >>

(* the continuation key and the limit of p are those of its last request *)
AsRequested(p) ==
    /\ p.queryInput # NoQueryInput
    /\ p.queryInput.ExclusiveStartKey = p.exclusiveStartkey
    /\ p.queryInput.Limit = LimitOf(p)

Ascending(s) == \A i, j \in 1..Len(s) : i < j => s[i] < s[j]

(* C26: a Next that fails on the page fetch leaves the parser with the     *)
(* continuation key and the per-page limit of the failed request; every    *)
(* fetch is issued with the parser's continuation key and limit, so that   *)
(* the first fetch after a failed one repeats the failed request unless a  *)
(* setter changed the key or the limit in between; and whatever fetches    *)
(* failed, as long as no start key was set and no decoding failed, the     *)
(* items returned so far are the store's first items in page order, each   *)
(* once, and they are all of the store's items once Next has reported that *)
(* all items are parsed.                                                   *)
C26_FailedFetchIsRetried ==
    /\ [][(NextStep /\ ReturnStep /\ result' = QueryError)
            => /\ AsRequested(parser')
               /\ parser'.currentBufferIndex = parser.currentBufferIndex
               /\ parser'.bufferedItems = parser.bufferedItems]_vars
    /\ [][(NextStep /\ Fetched)
            => /\ parser'.queryInput.ExclusiveStartKey = parser.exclusiveStartkey
               /\ parser'.queryInput.Limit = LimitOf(parser)]_vars
    /\ [][(NextStep /\ Fetched /\ result = QueryError /\ AsRequested(parser))
            => parser'.queryInput = parser.queryInput]_vars
    /\ [](( ~hist.keySet /\ hist.lost = << >> )
            => /\ hist.returned = FirstItems(Len(hist.returned))
               /\ result = AllParsed => hist.returned = FirstItems(store.N))

(* the first call returned an item, a later fetch failed, and the calls    *)
(* after it returned the rest of at least two items and then reported      *)
(* that all items are parsed                                               *)
C26_Witness ==
    /\ hist.fetchFailed
    /\ hist.first.done /\ hist.first.result = Item(1)
    /\ ~hist.keySet /\ hist.lost = << >>
    /\ store.N >= 2
    /\ hist.returned = FirstItems(store.N)
    /\ result = AllParsed

(* C29: when decoding the item at the cursor fails, Next returns the decode *)
(* error with the cursor one past that item and the buffer as fetched; the *)
(* item is consumed: as long as no start key was set, the items returned   *)
(* and the items that failed to decode are disjoint, each in ascending     *)
(* order, and together they are the store's first items, so the item is    *)
(* not returned again and the items after it are returned in order.        *)
C29_DecodeFailureConsumesItem ==
    /\ [][(NextStep /\ ReturnStep /\ result' = DecodeError)
            => /\ Len(hist'.lost) = Len(hist.lost) + 1
               /\ parser'.currentBufferIndex =
                     (IF Fetched THEN 0 ELSE parser.currentBufferIndex) + 1
               /\ parser'.currentBufferIndex <= Len(parser'.bufferedItems)
               /\ parser'.bufferedItems[parser'.currentBufferIndex]
                     = hist'.lost[Len(hist'.lost)]
               /\ ~Fetched => parser'.bufferedItems = parser.bufferedItems]_vars
    /\ [](~hist.keySet
            => /\ Ascending(hist.returned) /\ Ascending(hist.lost)
               /\ SeqToSet(hist.returned) \cap SeqToSet(hist.lost) = {}
               /\ SeqToSet(hist.returned) \cup SeqToSet(hist.lost)
                     = 1..(Len(hist.returned) + Len(hist.lost)))

(* of a page of two items the first failed to decode and the second was    *)
(* returned by the next call                                               *)
C29_Witness ==
    /\ parser.bufferedItems = << 1, 2 >>
    /\ parser.currentBufferIndex = 2
    /\ hist.lost = << 1 >>
    /\ hist.returned = << 2 >>
    /\ result = Item(2)

----------------------------------------------------------------------------
(* The Parser against a store that filters: SpecLoop.  The store evaluates *)
(* its items page by page and returns those that match the request's       *)
(* filter, so that a page may be empty and still carry a continuation key. *)
(* An endless store has no last page and no matching item.                 *)

(* more fetches than a store with a last page or a capped parser can need *)
MaxFetches == MaxItems + MaxCap + 2

LoopStores ==
    { [N |-> n, P |-> size, match |-> m, endless |-> FALSE] :
        n \in 0..MaxItems, size \in 1..MaxPageSize, m \in SUBSET (1..MaxItems) }
    \cup { [N |-> 0, P |-> 1, match |-> {}, endless |-> TRUE] }

InitLoop ==
    /\ tables = [t \in TableNames |-> Movies(MaxItemCount, 1)]
    /\ SecondaryIndexSparsenessThreshold = DefaultSparsenessThreshold
    /\ tableIndexMetadataCache = [t \in TableNames |-> NotCached]
    /\ providerCalls = [t \in TableNames |-> 0]
    /\ selExpr = NoExpr /\ selResult = NoResult
    /\ \E e \in { x \in ParserExpressions : "director" \in DOMAIN x.filters } :
          parser = NewQuery(ParserTable, e)
    /\ pc = "idle" /\ entry = NoParser /\ result = NoResult /\ attempts = 0
    /\ hist = [calls |-> 0, setterCalls |-> 0, returned |-> << >>, failed |-> FALSE,
               capSet |-> FALSE, capLate |-> FALSE, keySet |-> FALSE,
               completes |-> 0, completeSince |-> FALSE, first |-> NotCalled,
               lost |-> << >>, fetchFailed |-> FALSE]
    /\ store \in { st \in LoopStores : st.match \subseteq 1..st.N }
    /\ threads = NoThreads /\ lastPull = NoPull

(* Parser.Next; the page counter of a call that never returns is followed  *)
(* up to MaxFetches                                                        *)
NextFiltered ==
    /\ parser.currentPage < MaxFetches
    /\ Next

NextLoop ==
    \/ NextFiltered
    \/ CallSetMaxPagination
    \/ CallUnsetMaxPagination

SpecLoop == InitLoop /\ [][NextLoop]_vars

(* the goroutine inside Next keeps running *)
SpecLoopFair == SpecLoop /\ WF_vars(NextFiltered)

InLoop == pc = "loop"

(* C30: a Next call that fetched an empty page is still inside its refill  *)
(* loop; from there it returns "all items have been parsed" without        *)
(* fetching if the continuation key is empty, else "max pagination has     *)
(* been reached" without fetching if a cap is set and the pages counted    *)
(* have reached it, else it fetches again, the fetch either failing (Next  *)
(* returns the error) or being counted as one more page; the call stays in *)
(* the loop exactly when that page is empty again.  Hence a call inside    *)
(* the loop returns whenever a cap is set or the store has a last page,    *)
(* and against the endless store without a cap it leaves the loop only by  *)
(* a failing fetch: if the store never fails it never returns.             *)
C30_RefillLoopTermination ==
    /\ [][(InLoop /\ NextStep)
            => IF parser.exclusiveStartkey = 0
               THEN ~Fetched /\ result' = AllParsed /\ pc' = "idle"
               ELSE IF parser.maxPagesSpecified /\ parser.currentPage >= parser.maxPages
               THEN ~Fetched /\ result' = MaxReached /\ pc' = "idle"
               ELSE /\ Fetched
                    /\ \/ pc' = "idle" /\ result' = QueryError /\ hist'.calls = hist.calls + 1
                       \/ parser'.currentPage = parser.currentPage + 1
                    /\ (pc' = "loop") = (parser'.currentPage = parser.currentPage + 1
                                         /\ parser'.bufferedItems = << >>)]_vars
    /\ [][(InLoop /\ store.endless /\ ~parser.maxPagesSpecified /\ pc' = "idle")
            => result' = QueryError]_vars
    /\ (InLoop /\ (parser.maxPagesSpecified \/ ~store.endless)) ~> (pc = "idle")

(* against the endless store, with a cap of two pages, a call fetched two  *)
(* empty pages one after the other and returned that max pagination has    *)
(* been reached                                                            *)
C30_Witness ==
    /\ store.endless
    /\ pc = "idle"
    /\ attempts = 2
    /\ parser.currentPage = 2
    /\ result = MaxReached

====
